---- MODULE Spec2Model ----
(***************************************************************************)
(* LoRa 2.4GHz concentrator HAL (libloragw): the lifecycle state machine   *)
(* of loragw_hal.c on top of the framed request/acknowledgment protocol    *)
(* of loragw_mcu.c.  Every HAL call is one action; the concentrator and    *)
(* the serial transport are the environment, which answers each transport  *)
(* step of a call either with a byte frame or with an I/O fault.           *)
(*                                                                         *)
(* TLC integers are 32-bit signed, so the 32-bit wire fields used as       *)
(* inputs keep their most significant bit clear.                           *)
(***************************************************************************)
EXTENDS Integers, Sequences, FiniteSets, TLC

(* ------------------------------------------------------------------------ *)
(* Bounds of the model                                                       *)

\* largest RX radio count a ping reply announces
MaxRadioRx == 4
\* number of transport handles the process may hold open besides stdin
MaxOpen == 1
\* largest number of message-received events one get-RX-message ack announces
MaxEvt == 2
\* largest max_pkt passed to lgw_receive
MaxPkt == 2
\* successful starts counted since the RX table was last written
MaxCycles == 2
\* largest payload size lgw_time_on_air is applied to
MaxSize == 255
\* largest number of get-TX-status replies the concentrator has ready
MaxPoll == 3

(* ------------------------------------------------------------------------ *)
(* Program constants                                                         *)

LGW_RX_CHANNEL_NB_MAX == 3
STD_LORA_PREAMBLE == 8
BW_200KHZ == 8
BW_400KHZ == 10
BW_800KHZ == 12
BW_1600KHZ == 13
DR_LORA_SF5 == 5
DR_LORA_SF7 == 7
DR_LORA_SF12 == 12
CR_LORA_4_5 == 1
CR_LORA_LI_4_7 == 7
STAT_CRC_OK == 16
MOD_LORA == 0
IMMEDIATE == 1
\* e_status_type
TX_STATUS == 0
RX_STATUS == 1
\* e_status
TX_STATUS_UNKNOWN == 0
TX_OFF == 1
TX_FREE == 2
TX_SCHEDULED == 3
TX_EMITTING == 4
RX_STATUS_UNKNOWN == 5
RX_OFF == 6
RX_ON == 7
RX_SUSPENDED == 8
HEADER_CMD_SIZE == 4
READ_SIZE_MAX == 500
WRITE_SIZE_MAX == 280
RADIO_RAMP_20_US == 224

\* "01.00.01" and its terminating NUL, as character codes
mcu_version_string == <<48, 49, 46, 48, 48, 46, 48, 49, 0>>

\* The enumerations of loragw_mcu.h are records, one field per enumerator:
\* ORDER_ID.REQ_PING stands for ORDER_ID__REQ_PING, RESET_TYPE.TX for
\* RESET_TYPE__TX, TX_MSG_STATUS.IDLE for TX_STATUS__IDLE, ACK_PING.VERSION_0
\* for ACK_PING__VERSION_0, and so on.

\* command and acknowledgment codes (e_order_cmd)
ORDER_ID ==
    [ REQ_PING |-> 0,
      REQ_CONFIG_RX |-> 1,
      REQ_PREPARE_TX |-> 2,
      REQ_GET_STATUS |-> 3,
      REQ_GET_RX_MSG |-> 5,
      REQ_GET_TX_STATUS |-> 6,
      REQ_RESET |-> 7,
      ACK_PING |-> 64,
      ACK_CONFIG_RX |-> 65,
      ACK_PREPARE_TX |-> 66,
      ACK_GET_STATUS |-> 67,
      ACK_GET_RX_MSG |-> 69,
      ACK_GET_TX_STATUS |-> 70,
      ACK_RESET |-> 71,
      EVT_MSG_RECEIVE |-> 128 ]

\* reset types (e_reset_type)
RESET_TYPE ==
    [ GTW |-> 0,
      TX |-> 1,
      RX_ALL |-> 3 ]

\* acknowledgment status codes
CONFIG_RX_SATUS__DONE == 0
PREPARE_TX_STATUS__OK == 0
\* e_tx_msg_status
TX_MSG_STATUS ==
    [ IDLE |-> 0,
      LOADED |-> 1,
      ON_AIR |-> 2,
      DONE |-> 3,
      ERROR_PARAM |-> 4,
      ERROR_FAIL_TO_SEND |-> 5,
      ERROR_TX_TIMEOUT |-> 6 ]

\* payload offsets of the acknowledgments and requests
ACK_PING ==
    [ UNIQUE_ID_0 |-> 0,
      UNIQUE_ID_4 |-> 4,
      UNIQUE_ID_8 |-> 8,
      VERSION_0 |-> 12,
      NB_RADIO_TX |-> 21,
      NB_RADIO_RX |-> 22 ]
ACK_PING_SIZE == 23
\* sizeof(info->version) of s_ping_info
PING_VERSION_SIZE == 10

ACK_GET_STATUS ==
    [ SYSTEM_TIME_31_24 |-> 0,
      PRECISE_TIMER_31_24 |-> 4,
      PPS_STATUS |-> 8,
      PPS_TIME_31_24 |-> 9,
      TEMPERATURE_15_8 |-> 13,
      TEMPERATURE_7_0 |-> 14,
      RX_STATUS |-> 15 ]

ACK_RESET__STATUS == 0
ACK_CONFIG_RX__STATUS == 0
ACK_PREPARE_TX__STATUS == 0

ACK_GET_RX_MSG ==
    [ NB_MSG |-> 0,
      NB_BYTES_15_8 |-> 1,
      NB_BYTES_7_0 |-> 2,
      MSG_PENDING |-> 3,
      LOST_MESSAGE |-> 4 ]

EVT_MSG_RECEIVE ==
    [ RADIO_IDX |-> 0,
      TIMESTAMP_31_24 |-> 1,
      ERROR_FREQ_31_24 |-> 5,
      SNR |-> 9,
      RSSI |-> 10,
      PAYLOAD_LEN |-> 11,
      PAYLOAD |-> 12 ]

REQ_CONF_RX_SIZE == 10
REQ_RESET_SIZE == 1
REQ_PREPARE_TX__PAYLOAD == 20

(* ------------------------------------------------------------------------ *)
(* Bytes                                                                     *)

\* (uint8_t) x for x >= 0
U8(x) == x % 256

\* (int8_t) b for a byte b
I8(b) == IF b >= 128 THEN b - 256 ELSE b

\* the four bytes (x >> 24), (x >> 16), (x >> 8), (x >> 0) of a uint32_t
Bytes32(x) ==
    << U8(x \div 16777216), U8(x \div 65536), U8(x \div 256), U8(x) >>

\* the two bytes (x >> 8), (x >> 0) of a uint16_t
Bytes16(x) == << U8(x \div 256), U8(x) >>

\* byte at 0-based offset i of a C buffer
At(buf, i) == buf[i + 1]

\* big-endian 4 bytes at offset i to host uint32_t
bytes_be_to_uint32_le(buf, i) ==
    At(buf, i) * 16777216 + At(buf, i + 1) * 65536 + At(buf, i + 2) * 256 + At(buf, i + 3)

\* big-endian 4 bytes at offset i to host int32_t (two's complement)
bytes_be_to_int32_le(buf, i) ==
    I8(At(buf, i)) * 16777216 + At(buf, i + 1) * 65536 + At(buf, i + 2) * 256 + At(buf, i + 3)

\* big-endian 4 bytes at offset i to host uint32_t, kept as its two 16-bit
\* halves: every value of the type is represented
bytes_be_to_uint32_halves(buf, i) ==
    [hi |-> At(buf, i) * 256 + At(buf, i + 1),
     lo |-> At(buf, i + 2) * 256 + At(buf, i + 3)]

\* a + b on uint32_t
Add32(a, b) ==
    [hi |-> (a.hi + b.hi + (a.lo + b.lo) \div 65536) % 65536,
     lo |-> (a.lo + b.lo) % 65536]

\* (uint8_t)(w >> s) of a uint32_t, s one of 24, 16, 8, 0
Shr8(w, s) ==
    IF s = 24 THEN w.hi \div 256
    ELSE IF s = 16 THEN w.hi % 256
    ELSE IF s = 8 THEN w.lo \div 256
    ELSE w.lo % 256

cmd_get_size(bytes) == At(bytes, 1) * 256 + At(bytes, 2)

cmd_get_type(bytes) == At(bytes, 3)

\* n bytes of buf from offset i (memcpy source)
Slice(buf, i, n) == [k \in 1..n |-> At(buf, i + k - 1)]

\* strncmp(a, b, n) = 0 for NUL-terminated character sequences a and b
RECURSIVE StrnEq(_, _, _)
StrnEq(a, b, n) ==
    IF n = 0 THEN TRUE
    ELSE IF Head(a) # Head(b) THEN FALSE
    ELSE IF Head(a) = 0 THEN TRUE
    ELSE StrnEq(Tail(a), Tail(b), n - 1)

(* ------------------------------------------------------------------------ *)
(* Frames sent by the concentrator firmware                                  *)

FwFrame(cmd, payload) ==
    << 0, U8(Len(payload) \div 256), U8(Len(payload)), cmd >> \o payload

\* two's complement bytes of a (possibly negative) 32-bit value
FwBytes32S(x) ==
    IF x >= 0 THEN Bytes32(x)
    ELSE LET y == (x + 2147483647) + 1
         IN  << 128 + (y \div 16777216), U8(y \div 65536), U8(y \div 256), U8(y) >>

FwAckPing(uid, version, nb_tx, nb_rx) ==
    FwFrame(ORDER_ID.ACK_PING,
            Bytes32(uid[1]) \o Bytes32(uid[2]) \o Bytes32(uid[3]) \o version \o << nb_tx, nb_rx >>)

\* the ping acknowledgment of a board whose unique id is the 12 bytes uid
FwAckPingBytes(uid, version, nb_tx, nb_rx) ==
    FwFrame(ORDER_ID.ACK_PING, uid \o version \o << nb_tx, nb_rx >>)

FwAckStatus(sys, precise, pps, pps_time, temp, crc) ==
    FwFrame(ORDER_ID.ACK_GET_STATUS,
            Bytes32(sys) \o Bytes32(precise) \o << pps >> \o Bytes32(pps_time)
            \o Bytes16(temp) \o crc)

FwAck1(cmd, status) == FwFrame(cmd, << status >>)

FwAckGetRxMsg(nb_msg, nb_bytes, pending, lost) ==
    FwFrame(ORDER_ID.ACK_GET_RX_MSG, << nb_msg >> \o Bytes16(nb_bytes) \o << pending, lost >>)

FwEvtMsg(radio, ts, foff, snr, rssi, data) ==
    FwFrame(ORDER_ID.EVT_MSG_RECEIVE,
            << radio >> \o Bytes32(ts) \o FwBytes32S(foff)
            \o << U8(snr + 256), U8(rssi + 256), Len(data) >> \o data)

(* ------------------------------------------------------------------------ *)
(* State                                                                     *)

VARIABLES
    mcu_tty_path,    \* loragw_hal.c: stored transport path
    mcu_fd,          \* loragw_hal.c: transport handle used by every call
    lgw_is_started,  \* loragw_hal.c: lifecycle flag
    rx_channel,      \* loragw_hal.c: stored RX channel table, index 0..2
    tx_channel,      \* loragw_hal.c: stored TX configuration
    nb_radio_rx,     \* loragw_mcu.c: RX radio count of the last decoded ping
    nb_radio_tx,     \* loragw_mcu.c: TX radio count of the last decoded ping
    fds,             \* descriptors currently open in the process
    pc,              \* "idle", or "blocked" inside a read that never returns
    call,            \* the last HAL call and its arguments
    ret,             \* << value returned by the last call >>, << >> if it did not return
    io,              \* transport operations performed by the last call, in order
    out,             \* output parameters written by the last call
    first_cfg,       \* history: config-RX requests of the first successful
                     \* lgw_start since the RX table was last written, and
                     \* the number of successful starts since then
    rx_warn          \* warnings printed by mcu_receive during the last call

vars == << mcu_tty_path, mcu_fd, lgw_is_started, rx_channel, tx_channel,
           nb_radio_rx, nb_radio_tx, fds, pc, call, ret, io, out, first_cfg, rx_warn >>

\* the stored configuration
Conf == << mcu_tty_path, rx_channel, tx_channel >>

(* ------------------------------------------------------------------------ *)
(* Transport                                                                 *)

\* The environment of one call: env.bad is the set of transport steps of the
\* call (0, 1, ...) that go wrong, env.kind says how:
\*   "wfail"    write() returns -1
\*   "rfail"    read() returns -1 with an I/O errno
\*   "eintr"    read() returns -1 with errno = EINTR
\*   "badtype"  the frame carries an unexpected command-type byte
\*   "nack"     the frame carries a non-zero first payload byte (status)
\*   "short"    the header arrives, the declared payload never does
\*   "toolarge" the header declares more than the receive buffer holds

IoEv(t, fd, cmd, pl, n) == [t |-> t, fd |-> fd, cmd |-> cmd, pl |-> pl, n |-> n]

\* the frame the transport delivers at step i, given the firmware's frame
Delivered(env, i, good) ==
    IF i \notin env.bad THEN good
    ELSE IF env.kind = "badtype" THEN [good EXCEPT ![4] = 255]
    ELSE IF env.kind = "nack" THEN [good EXCEPT ![5] = 1]
    ELSE IF env.kind = "short" THEN SubSeq(good, 1, HEADER_CMD_SIZE)
    ELSE IF env.kind = "toolarge" THEN << 0, 1, 241, good[4] >>
    ELSE good

\* write(fd, ...): -1 on a descriptor that is not open or on an I/O error
write_req(c, cmd, size, payload, i) ==
    LET ok == c.fd \in c.open /\ ~(i \in c.env.bad /\ c.env.kind = "wfail")
    IN  [res |-> IF ok THEN 0 ELSE -1,
         io  |-> << IoEv("write", c.fd, cmd, SubSeq(payload, 1, size), IF ok THEN 0 ELSE -1) >>]

\* v under the name of the parameter of F: a local variable, assigned once
Let(v, F(_)) == F(v)

\* reads the 4-byte header, then the declared payload; the read event of the
\* log carries the bytes stored in the buffer. Every read returns all that
\* was asked or fails; read_ack_bytes below follows the reads one by one
read_ack(c, buf_size, i, frame) ==
    Let(Delivered(c.env, i, frame), LAMBDA f :
    Let(At(f, 1) * 256 + At(f, 2), LAMBDA size :
        IF c.fd \notin c.open \/ (i \in c.env.bad /\ c.env.kind \in {"rfail", "eintr"})
        THEN [res |-> -1, hang |-> FALSE, buf |-> << >>,
              io |-> << IoEv("read", c.fd, 0, << >>, -1) >>]
        ELSE IF HEADER_CMD_SIZE + size > buf_size
        THEN [res |-> -1, hang |-> FALSE, buf |-> SubSeq(f, 1, HEADER_CMD_SIZE),
              io |-> << IoEv("read", c.fd, 0, SubSeq(f, 1, HEADER_CMD_SIZE), -1) >>]
        ELSE IF Len(f) < HEADER_CMD_SIZE + size
        THEN [res |-> -1, hang |-> TRUE, buf |-> f,
              io |-> << IoEv("read", c.fd, 0, f, -1) >>]
        ELSE [res |-> HEADER_CMD_SIZE + size, hang |-> FALSE,
              buf |-> SubSeq(f, 1, HEADER_CMD_SIZE + size),
              io |-> << IoEv("read", c.fd, 0, SubSeq(f, 1, HEADER_CMD_SIZE + size),
                              HEADER_CMD_SIZE + size) >>]))

(* ------------------------------------------------------------------------ *)
(* read_ack read by read: the transport may deliver fewer bytes than asked   *)

\* byte at 0-based offset i of buf_ack; the static buffer is zero where
\* nothing was stored yet
BufAt(buf, i) == IF i < Len(buf) THEN buf[i + 1] ELSE 0

\* buf after bytes were stored from 0-based offset pos on
Store(buf, pos, bytes) ==
    [k \in 1..(IF Len(buf) > pos + Len(bytes) THEN Len(buf) ELSE pos + Len(bytes)) |->
        IF k > pos /\ k <= pos + Len(bytes) THEN bytes[k - pos]
        ELSE IF k <= Len(buf) THEN buf[k]
        ELSE 0]

\* the number of bytes a read of count bytes returns: what the next outcome
\* of the script allows (everything asked once the script is used up), and
\* no more than the stream holds
ReadLen(s, count) ==
    Let(IF s.script = << >> \/ Head(s.script).n > count THEN count ELSE Head(s.script).n,
        LAMBDA want : IF want > Len(s.stream) THEN Len(s.stream) ELSE want)

\* n = read(fd, &buf[pos], count) in the state s of a read_ack call. The
\* next outcome of the script is a failed read that sets errno (err "EINTR"
\* or "EIO"), or the most bytes the transport hands over in this read (n, 0
\* for a read of 0 bytes); a successful read leaves errno as it was; a read
\* that finds the stream empty never returns
sys_read(s, fd, pos, count) ==
    IF s.script # << >> /\ Head(s.script).err # "none"
    THEN [s EXCEPT !.n = -1,
                   !.errno = Head(s.script).err,
                   !.script = Tail(s.script),
                   !.io = Append(s.io, IoEv("read", fd, 0, << >>, -1))]
    ELSE IF ReadLen(s, count) = 0 /\ (s.script = << >> \/ Head(s.script).n # 0)
    THEN [s EXCEPT !.hang = TRUE]
    ELSE [s EXCEPT !.n = ReadLen(s, count),
                   !.buf = Store(s.buf, pos, SubSeq(s.stream, 1, ReadLen(s, count))),
                   !.stream = SubSeq(s.stream, ReadLen(s, count) + 1, Len(s.stream)),
                   !.script = IF s.script = << >> THEN << >> ELSE Tail(s.script),
                   !.io = Append(s.io, IoEv("read", fd, 0,
                                            SubSeq(s.stream, 1, ReadLen(s, count)),
                                            ReadLen(s, count)))]

\* what read_ack hands back: its return value, or the fact that it never returns
AckResult(s, res) ==
    [res |-> res, hang |-> s.hang, buf |-> s.buf, errno |-> s.errno,
     stream |-> s.stream, io |-> s.io]

\* the do ... while loop over the payload reads
RECURSIVE read_ack_payload(_, _, _, _)
read_ack_payload(s, fd, nb_read, size) ==
    Let(sys_read(s, fd, nb_read, size - (nb_read - HEADER_CMD_SIZE)), LAMBDA r :
        IF r.hang THEN AckResult(r, -1)
        ELSE IF r.errno = "EINTR" THEN AckResult(r, -1)
        ELSE IF r.n = -1 THEN AckResult(r, -1)
        ELSE IF (nb_read + r.n) - HEADER_CMD_SIZE < size
        THEN read_ack_payload(r, fd, nb_read + r.n, size)
        ELSE AckResult(r, nb_read + r.n))

\* read_ack(fd, buf, buf_size) with buf holding what earlier calls left, errno
\* as the process left it, the bytes the concentrator sends and the way the
\* transport hands them over
read_ack_bytes(fd, buf, buf_size, errno, stream, script) ==
    Let(sys_read([buf |-> buf, errno |-> errno, stream |-> stream, script |-> script,
                  io |-> << >>, n |-> 0, hang |-> FALSE], fd, 0, HEADER_CMD_SIZE),
        LAMBDA h :
        IF h.hang THEN AckResult(h, -1)
        ELSE IF h.errno = "EINTR" THEN AckResult(h, -1)
        ELSE IF h.n = -1 THEN AckResult(h, -1)
        ELSE Let(BufAt(h.buf, 1) * 256 + BufAt(h.buf, 2), LAMBDA size :
                 IF HEADER_CMD_SIZE + size > buf_size THEN AckResult(h, -1)
                 ELSE IF size > 0 THEN read_ack_payload(h, fd, h.n, size)
                 ELSE AckResult(h, h.n)))

\* variant: the acknowledgment is taken without a read
Exchange_no_read(c, cmd, size, payload, i, frame) ==
    Let(write_req(c, cmd, size, payload, i), LAMBDA w :
        IF w.res # 0
        THEN [res |-> -1, hang |-> FALSE, buf |-> << >>, io |-> w.io]
        ELSE [res |-> 0, hang |-> FALSE, buf |-> frame, io |-> w.io])

\* one request followed by the read of its acknowledgment
Exchange(c, cmd, size, payload, i, frame) ==
    Let(write_req(c, cmd, size, payload, i), LAMBDA w :
        IF w.res # 0
        THEN [res |-> -1, hang |-> FALSE, buf |-> << >>, io |-> w.io]
        ELSE Let(read_ack(c, READ_SIZE_MAX, i, frame), LAMBDA r :
                 [res |-> IF r.res < 0 THEN -1 ELSE 0, hang |-> r.hang,
                  buf |-> r.buf, io |-> w.io \o r.io]))

(* ------------------------------------------------------------------------ *)
(* Acknowledgment decoders                                                   *)

decode_ack_ping(payload) ==
    IF cmd_get_type(payload) # ORDER_ID.ACK_PING
    THEN [res |-> -1]
    ELSE [res |-> 0,
          unique_id_high |-> bytes_be_to_uint32_halves(payload, HEADER_CMD_SIZE + ACK_PING.UNIQUE_ID_0),
          unique_id_mid  |-> bytes_be_to_uint32_halves(payload, HEADER_CMD_SIZE + ACK_PING.UNIQUE_ID_4),
          unique_id_low  |-> bytes_be_to_uint32_halves(payload, HEADER_CMD_SIZE + ACK_PING.UNIQUE_ID_8),
          version |-> Slice(payload, HEADER_CMD_SIZE + ACK_PING.VERSION_0, PING_VERSION_SIZE - 1)
                      \o << 0 >>,
          nb_radio_tx |-> At(payload, HEADER_CMD_SIZE + ACK_PING.NB_RADIO_TX),
          nb_radio_rx |-> At(payload, HEADER_CMD_SIZE + ACK_PING.NB_RADIO_RX)]

decode_ack_get_status(payload, nb_rx) ==
    IF cmd_get_type(payload) # ORDER_ID.ACK_GET_STATUS
    THEN [res |-> -1]
    ELSE [res |-> 0,
          system_time_ms  |-> bytes_be_to_uint32_le(payload, HEADER_CMD_SIZE + ACK_GET_STATUS.SYSTEM_TIME_31_24),
          precise_time_us |-> bytes_be_to_uint32_le(payload, HEADER_CMD_SIZE + ACK_GET_STATUS.PRECISE_TIMER_31_24),
          pps_status      |-> At(payload, HEADER_CMD_SIZE + ACK_GET_STATUS.PPS_STATUS),
          pps_time_us     |-> bytes_be_to_uint32_le(payload, HEADER_CMD_SIZE + ACK_GET_STATUS.PPS_TIME_31_24),
          \* (int16_t) of the two bytes, in hundredths of a degree
          temperature     |-> I8(At(payload, HEADER_CMD_SIZE + ACK_GET_STATUS.TEMPERATURE_15_8)) * 256
                              + At(payload, HEADER_CMD_SIZE + ACK_GET_STATUS.TEMPERATURE_7_0),
          rx_crc_ok  |-> [k \in 0..(nb_rx - 1) |->
                             At(payload, HEADER_CMD_SIZE + ACK_GET_STATUS.RX_STATUS + 4 * k) * 256
                             + At(payload, HEADER_CMD_SIZE + ACK_GET_STATUS.RX_STATUS + 4 * k + 1)],
          rx_crc_err |-> [k \in 0..(nb_rx - 1) |->
                             At(payload, HEADER_CMD_SIZE + ACK_GET_STATUS.RX_STATUS + 4 * k + 2) * 256
                             + At(payload, HEADER_CMD_SIZE + ACK_GET_STATUS.RX_STATUS + 4 * k + 3)]]

\* decode_ack_reset, decode_ack_config_rx, decode_ack_prepare_tx, decode_ack_tx_status:
\* type check, then the status byte at payload offset 0
decode_ack_status(payload, ack_type) ==
    IF cmd_get_type(payload) # ack_type
    THEN [res |-> -1, status |-> 0]
    ELSE [res |-> 0, status |-> At(payload, HEADER_CMD_SIZE + ACK_RESET__STATUS)]

decode_ack_get_rx_msg(payload) ==
    IF cmd_get_type(payload) # ORDER_ID.ACK_GET_RX_MSG
    THEN [res |-> -1]
    ELSE [res |-> 0,
          nb_msg   |-> At(payload, HEADER_CMD_SIZE + ACK_GET_RX_MSG.NB_MSG),
          nb_bytes |-> At(payload, HEADER_CMD_SIZE + ACK_GET_RX_MSG.NB_BYTES_15_8) * 256
                       + At(payload, HEADER_CMD_SIZE + ACK_GET_RX_MSG.NB_BYTES_7_0),
          pending  |-> At(payload, HEADER_CMD_SIZE + ACK_GET_RX_MSG.MSG_PENDING),
          lost_message |-> At(payload, HEADER_CMD_SIZE + ACK_GET_RX_MSG.LOST_MESSAGE)]

decode_evt_msg_received(payload) ==
    IF cmd_get_type(payload) # ORDER_ID.EVT_MSG_RECEIVE
    THEN [res |-> -1]
    ELSE LET size == At(payload, HEADER_CMD_SIZE + EVT_MSG_RECEIVE.PAYLOAD_LEN)
         IN  [res |-> 0,
              pkt |-> [freq_hz    |-> 0,
                       channel    |-> At(payload, HEADER_CMD_SIZE + EVT_MSG_RECEIVE.RADIO_IDX),
                       status     |-> 0,
                       count_us   |-> bytes_be_to_uint32_le(payload, HEADER_CMD_SIZE + EVT_MSG_RECEIVE.TIMESTAMP_31_24),
                       foff_hz    |-> bytes_be_to_int32_le(payload, HEADER_CMD_SIZE + EVT_MSG_RECEIVE.ERROR_FREQ_31_24),
                       modulation |-> 0,
                       bandwidth  |-> 0,
                       datarate   |-> 0,
                       coderate   |-> 0,
                       rssi       |-> I8(At(payload, HEADER_CMD_SIZE + EVT_MSG_RECEIVE.RSSI)),
                       snr        |-> I8(At(payload, HEADER_CMD_SIZE + EVT_MSG_RECEIVE.SNR)),
                       size       |-> size,
                       payload    |-> Slice(payload, HEADER_CMD_SIZE + EVT_MSG_RECEIVE.PAYLOAD, size)]]

(* ------------------------------------------------------------------------ *)
(* MCU commands (loragw_mcu.c).  c = [fd, open, env] is the handle, the set  *)
(* of open descriptors and the environment; i is the index of the next       *)
(* transport step of the call.  Results carry res (0 / -1), hang (the call   *)
(* is stuck in a read), n (next step index) and io (transport operations).   *)

\* the descriptors open() can return; 1 and 2 stay open and are not tracked
FdSpace == {0} \cup (3..(2 + MaxOpen))

LowestFree(open) ==
    IF FdSpace \ open = {} THEN -1
    ELSE CHOOSE f \in FdSpace \ open : \A g \in FdSpace \ open : f <= g

\* env.open: "ok", "fail" (open() fails), "attr_fail" (tcgetattr, tcsetattr or
\* tcflush fails after open() succeeded: -1 is returned, the descriptor stays open)
mcu_open(tty_path, open, env) ==
    LET fd == IF tty_path = "" \/ env.open = "fail" THEN -1 ELSE LowestFree(open)
    IN  IF fd = -1
        THEN [fd |-> -1, open |-> open, io |-> << IoEv("open", -1, 0, << >>, -1) >>]
        ELSE IF env.open = "attr_fail"
        THEN [fd |-> -1, open |-> open \cup {fd}, io |-> << IoEv("open", fd, 0, << >>, -1) >>]
        ELSE [fd |-> fd, open |-> open \cup {fd}, io |-> << IoEv("open", fd, 0, << >>, fd) >>]

mcu_close(fd, open) ==
    [open |-> open \ {fd},
     io   |-> << IoEv("close", fd, 0, << >>, IF fd \in open THEN 0 ELSE -1) >>]

mcu_ping(c, i) ==
    Let(Exchange(c, ORDER_ID.REQ_PING, 0, << >>, i, c.env.ping), LAMBDA x :
    Let(IF x.res = 0 THEN decode_ack_ping(x.buf) ELSE [res |-> -1], LAMBDA d :
        [res |-> d.res, hang |-> x.hang, n |-> i + 1, io |-> x.io, info |-> d]))

mcu_get_status(c, nb_rx, i) ==
    Let(Exchange(c, ORDER_ID.REQ_GET_STATUS, 0, << >>, i, c.env.status), LAMBDA x :
    Let(IF x.res = 0 THEN decode_ack_get_status(x.buf, nb_rx) ELSE [res |-> -1], LAMBDA d :
        [res |-> d.res, hang |-> x.hang, n |-> i + 1, io |-> x.io, status |-> d]))

\* env.status is the frame that answers the status request of the call
mcu_get_tx_status(c, i) ==
    Let(Exchange(c, ORDER_ID.REQ_GET_TX_STATUS, 0, << >>, i, c.env.status), LAMBDA x :
    Let(IF x.res = 0 THEN decode_ack_status(x.buf, ORDER_ID.ACK_GET_TX_STATUS)
        ELSE [res |-> -1, status |-> 0], LAMBDA d :
        [res |-> d.res, hang |-> x.hang, n |-> i + 1, io |-> x.io, status |-> d.status]))

\* the reset blocks of mcu_reset, one request per entry of types
RECURSIVE reset_blocks(_, _, _)
reset_blocks(c, types, i) ==
    IF types = << >> THEN [res |-> 0, hang |-> FALSE, n |-> i, io |-> << >>]
    ELSE Let(Exchange(c, ORDER_ID.REQ_RESET, REQ_RESET_SIZE, << Head(types) >>, i,
                      FwAck1(ORDER_ID.ACK_RESET, 0)), LAMBDA x :
         Let(IF x.res = 0 THEN decode_ack_status(x.buf, ORDER_ID.ACK_RESET)
             ELSE [res |-> -1, status |-> 0], LAMBDA d :
             IF d.res # 0 \/ d.status # 0
             THEN [res |-> -1, hang |-> x.hang, n |-> i + 1, io |-> x.io]
             ELSE Let(reset_blocks(c, Tail(types), i + 1), LAMBDA rest :
                      [rest EXCEPT !.io = x.io \o rest.io])))

\* int mcu_reset(int fd, bool reset_mcu)
mcu_reset(c, reset_mcu, i) ==
    reset_blocks(c, << RESET_TYPE.RX_ALL, RESET_TYPE.TX >>
                    \o (IF reset_mcu THEN << RESET_TYPE.GTW >> ELSE << >>), i)

\* conversion of an enumerator passed for a bool parameter
ToBool(x) == x # 0

\* variant: the channel is not compared with the number of RX radios
mcu_config_rx_ungated(c, nb_rx, channel, conf, i) ==
    IF FALSE
    THEN [res |-> -1, hang |-> FALSE, n |-> i, io |-> << >>]
    ELSE Let(<< channel >> \o Bytes32(conf.freq_hz) \o Bytes16(STD_LORA_PREAMBLE)
             \o << U8(conf.datarate), U8(conf.bandwidth), 0 >>, LAMBDA buf_req :
         Let(Exchange(c, ORDER_ID.REQ_CONFIG_RX, REQ_CONF_RX_SIZE, buf_req, i,
                      FwAck1(ORDER_ID.ACK_CONFIG_RX, CONFIG_RX_SATUS__DONE)), LAMBDA x :
         Let(IF x.res = 0 THEN decode_ack_status(x.buf, ORDER_ID.ACK_CONFIG_RX)
             ELSE [res |-> -1, status |-> 0], LAMBDA d :
             [res  |-> IF d.res = 0 /\ d.status = CONFIG_RX_SATUS__DONE THEN 0 ELSE -1,
              hang |-> x.hang, n |-> i + 1, io |-> x.io])))

mcu_config_rx(c, nb_rx, channel, conf, i) ==
    IF channel >= nb_rx
    THEN [res |-> -1, hang |-> FALSE, n |-> i, io |-> << >>]
    ELSE Let(<< channel >> \o Bytes32(conf.freq_hz) \o Bytes16(STD_LORA_PREAMBLE)
             \o << U8(conf.datarate), U8(conf.bandwidth), 0 >>, LAMBDA buf_req :
         Let(Exchange(c, ORDER_ID.REQ_CONFIG_RX, REQ_CONF_RX_SIZE, buf_req, i,
                      FwAck1(ORDER_ID.ACK_CONFIG_RX, CONFIG_RX_SATUS__DONE)), LAMBDA x :
         Let(IF x.res = 0 THEN decode_ack_status(x.buf, ORDER_ID.ACK_CONFIG_RX)
             ELSE [res |-> -1, status |-> 0], LAMBDA d :
             [res  |-> IF d.res = 0 /\ d.status = CONFIG_RX_SATUS__DONE THEN 0 ELSE -1,
              hang |-> x.hang, n |-> i + 1, io |-> x.io])))

\* no warning: lost is the count of the "packets lost" warning (0: not
\* printed), dropped the number of "dropping packet" warnings
NoWarn == [lost |-> 0, dropped |-> 0]

\* the event reads of mcu_receive, from event k on
RECURSIVE evt_loop(_, _, _, _, _)
evt_loop(c, nb_msg, max_pkt, k, i) ==
    IF k >= nb_msg THEN [res |-> 0, hang |-> FALSE, n |-> i, io |-> << >>, pkts |-> << >>,
                         dropped |-> 0]
    ELSE IF k >= Len(c.env.events)
    THEN \* the announced event never arrives
         [res |-> -1, hang |-> c.fd \in c.open, n |-> i + 1,
          io |-> << IoEv("read", c.fd, 0, << >>, IF c.fd \in c.open THEN 0 ELSE -1) >>,
          pkts |-> << >>, dropped |-> 0]
    ELSE Let(read_ack(c, READ_SIZE_MAX, i, c.env.events[k + 1]), LAMBDA r :
             IF r.res < 0
             THEN [res |-> -1, hang |-> r.hang, n |-> i + 1, io |-> r.io, pkts |-> << >>,
                   dropped |-> 0]
             ELSE Let(IF k >= max_pkt THEN [res |-> 0, skip |-> TRUE]
                      ELSE decode_evt_msg_received(r.buf), LAMBDA d :
                  IF d.res # 0
                  THEN [res |-> -1, hang |-> FALSE, n |-> i + 1, io |-> r.io, pkts |-> << >>,
                        dropped |-> 0]
                  ELSE Let(evt_loop(c, nb_msg, max_pkt, k + 1, i + 1), LAMBDA rest :
                           [rest EXCEPT !.io = r.io \o rest.io,
                                        !.pkts = (IF k >= max_pkt THEN << >> ELSE << d.pkt >>)
                                                 \o rest.pkts,
                                        !.dropped = (IF k >= max_pkt THEN 1 ELSE 0)
                                                    + rest.dropped])))

\* variant: the events beyond max_pkt are left in the transport
mcu_receive_no_drain(c, max_pkt, i) ==
    Let(Exchange(c, ORDER_ID.REQ_GET_RX_MSG, 0, << >>, i, c.env.rxmsg), LAMBDA x :
    Let(IF x.res = 0 THEN decode_ack_get_rx_msg(x.buf) ELSE [res |-> -1], LAMBDA d :
        IF d.res # 0
        THEN [res |-> -1, hang |-> x.hang, n |-> i + 1, io |-> x.io, pkts |-> << >>,
              warn |-> NoWarn]
        ELSE Let(evt_loop(c, IF d.nb_msg < max_pkt THEN d.nb_msg ELSE max_pkt, max_pkt, 0, i + 1), LAMBDA l :
                 [res |-> l.res, hang |-> l.hang, n |-> l.n, io |-> x.io \o l.io,
                  pkts |-> l.pkts,
                  warn |-> [lost |-> d.lost_message, dropped |-> l.dropped]])))

\* pkts are the entries of the caller's array written by the call (nb_pkt of
\* them when it succeeds)
mcu_receive(c, max_pkt, i) ==
    Let(Exchange(c, ORDER_ID.REQ_GET_RX_MSG, 0, << >>, i, c.env.rxmsg), LAMBDA x :
    Let(IF x.res = 0 THEN decode_ack_get_rx_msg(x.buf) ELSE [res |-> -1], LAMBDA d :
        IF d.res # 0
        THEN [res |-> -1, hang |-> x.hang, n |-> i + 1, io |-> x.io, pkts |-> << >>,
              warn |-> NoWarn]
        ELSE Let(evt_loop(c, d.nb_msg, max_pkt, 0, i + 1), LAMBDA l :
                 [res |-> l.res, hang |-> l.hang, n |-> l.n, io |-> x.io \o l.io,
                  pkts |-> l.pkts,
                  warn |-> [lost |-> d.lost_message, dropped |-> l.dropped]])))

\* variant: the enumeration value is sent as it is
PrepareTxCr_raw(coderate) ==
    IF coderate \in CR_LORA_4_5..CR_LORA_LI_4_7 THEN << coderate >> ELSE << >>

\* the coding-rate switch of mcu_prepare_tx: << byte >>, or << >> for the default branch
PrepareTxCr(coderate) ==
    IF coderate \in CR_LORA_4_5..CR_LORA_LI_4_7 THEN << coderate - 1 >> ELSE << >>

\* variant: the status of the acknowledgment is not looked at
mcu_prepare_tx_any_status(c, nb_rx, pkt, i) ==
    IF nb_rx < 1 \/ PrepareTxCr(pkt.coderate) = << >>
    THEN [res |-> -1, hang |-> FALSE, n |-> i, io |-> << >>]
    ELSE Let(<< U8(pkt.tx_mode) >> \o Bytes32(pkt.count_us)
             \o << U8(pkt.rf_power + 256) >> \o Bytes32(pkt.freq_hz)
             \o << U8(pkt.bandwidth), U8(pkt.datarate),
                   IF pkt.invert_pol THEN 1 ELSE 0 >>
             \o PrepareTxCr(pkt.coderate)
             \o << IF pkt.no_header THEN 1 ELSE 0,
                   IF pkt.no_crc THEN 0 ELSE 1,
                   RADIO_RAMP_20_US >>
             \o Bytes16(pkt.preamble) \o << U8(pkt.size) >>
             \o SubSeq(pkt.payload, 1, pkt.size), LAMBDA buf_req :
         Let(Exchange(c, ORDER_ID.REQ_PREPARE_TX, REQ_PREPARE_TX__PAYLOAD + pkt.size,
                      buf_req, i, FwAck1(ORDER_ID.ACK_PREPARE_TX, PREPARE_TX_STATUS__OK)),
             LAMBDA x :
         Let(IF x.res = 0 THEN decode_ack_status(x.buf, ORDER_ID.ACK_PREPARE_TX)
             ELSE [res |-> -1, status |-> 0], LAMBDA d :
             [res  |-> IF d.res = 0 THEN 0 ELSE -1,
              hang |-> x.hang, n |-> i + 1, io |-> x.io])))

\* mcu_prepare_tx with blocking = false
mcu_prepare_tx(c, nb_rx, pkt, i) ==
    IF nb_rx < 1 \/ PrepareTxCr(pkt.coderate) = << >>
    THEN [res |-> -1, hang |-> FALSE, n |-> i, io |-> << >>]
    ELSE Let(<< U8(pkt.tx_mode) >> \o Bytes32(pkt.count_us)
             \o << U8(pkt.rf_power + 256) >> \o Bytes32(pkt.freq_hz)
             \o << U8(pkt.bandwidth), U8(pkt.datarate),
                   IF pkt.invert_pol THEN 1 ELSE 0 >>
             \o PrepareTxCr(pkt.coderate)
             \o << IF pkt.no_header THEN 1 ELSE 0,
                   IF pkt.no_crc THEN 0 ELSE 1,
                   RADIO_RAMP_20_US >>
             \o Bytes16(pkt.preamble) \o << U8(pkt.size) >>
             \o SubSeq(pkt.payload, 1, pkt.size), LAMBDA buf_req :
         Let(Exchange(c, ORDER_ID.REQ_PREPARE_TX, REQ_PREPARE_TX__PAYLOAD + pkt.size,
                      buf_req, i, FwAck1(ORDER_ID.ACK_PREPARE_TX, PREPARE_TX_STATUS__OK)),
             LAMBDA x :
         Let(IF x.res = 0 THEN decode_ack_status(x.buf, ORDER_ID.ACK_PREPARE_TX)
             ELSE [res |-> -1, status |-> 0], LAMBDA d :
             [res  |-> IF d.res = 0 /\ d.status = PREPARE_TX_STATUS__OK THEN 0 ELSE -1,
              hang |-> x.hang, n |-> i + 1, io |-> x.io])))

(* ------------------------------------------------------------------------ *)
(* HAL calls (loragw_hal.c)                                                  *)

\* history value: no successful lgw_start since the RX table was last written
NoCfg == [starts |-> 0, nb |-> 0, reqs |-> << >>]

\* payloads of the config-RX requests a call wrote, in order
ConfigRxWritten(log) ==
    LET w == SelectSeq(log, LAMBDA e : e.t = "write" /\ e.cmd = ORDER_ID.REQ_CONFIG_RX)
    IN  [k \in 1..Len(w) |-> w[k].pl]

\* a call returns value v
Return(v) == pc' = "idle" /\ ret' = << v >>

\* a call is stuck in a transport read and does not return
Block == pc' = "blocked" /\ ret' = << >>

\* variant: the path is stored whatever the lifecycle
lgw_board_setconf_unguarded(conf) ==
    /\ pc = "idle"
    /\ call' = [op |-> "lgw_board_setconf", conf |-> conf]
    /\ rx_warn' = NoWarn
    /\ io' = << >>
    /\ out' = << >>
    /\ Return(0)
    /\ mcu_tty_path' = conf.tty_path
    /\ UNCHANGED << mcu_fd, lgw_is_started, rx_channel, tx_channel, nb_radio_rx, nb_radio_tx,
                    fds, first_cfg >>

lgw_board_setconf(conf) ==
    /\ pc = "idle"
    /\ call' = [op |-> "lgw_board_setconf", conf |-> conf]
    /\ rx_warn' = NoWarn
    /\ io' = << >>
    /\ out' = << >>
    /\ IF lgw_is_started
       THEN /\ Return(-1)
            /\ UNCHANGED mcu_tty_path
       ELSE /\ Return(0)
            /\ mcu_tty_path' = conf.tty_path
    /\ UNCHANGED << mcu_fd, lgw_is_started, rx_channel, tx_channel, nb_radio_rx, nb_radio_tx,
                    fds, first_cfg >>

\* channel >= LGW_RX_CHANNEL_NB_MAX is reported but not rejected: the stores
\* then land beyond rx_channel[]; clobber says whether they hit tx_channel,
\* the object declared next to it
lgw_channel_rx_setconf(channel, conf, clobber) ==
    /\ pc = "idle"
    /\ call' = [op |-> "lgw_channel_rx_setconf", channel |-> channel, conf |-> conf]
    /\ rx_warn' = NoWarn
    /\ io' = << >>
    /\ out' = << >>
    /\ IF lgw_is_started
       THEN /\ Return(-1)
            /\ UNCHANGED << rx_channel, tx_channel, first_cfg >>
       ELSE /\ Return(0)
            /\ first_cfg' = NoCfg
            /\ IF channel < LGW_RX_CHANNEL_NB_MAX
               THEN /\ rx_channel' = [rx_channel EXCEPT ![channel] = conf]
                    /\ UNCHANGED tx_channel
               ELSE /\ UNCHANGED rx_channel
                    /\ tx_channel' = IF clobber THEN [enable |-> conf.enable] ELSE tx_channel
    /\ UNCHANGED << mcu_tty_path, mcu_fd, lgw_is_started, nb_radio_rx, nb_radio_tx, fds >>

lgw_channel_tx_setconf(conf) ==
    /\ pc = "idle"
    /\ call' = [op |-> "lgw_channel_tx_setconf", conf |-> conf]
    /\ rx_warn' = NoWarn
    /\ io' = << >>
    /\ out' = << >>
    /\ IF lgw_is_started
       THEN /\ Return(-1)
            /\ UNCHANGED tx_channel
       ELSE /\ Return(0)
            /\ tx_channel' = [enable |-> conf.enable]
    /\ UNCHANGED << mcu_tty_path, mcu_fd, lgw_is_started, rx_channel, nb_radio_rx, nb_radio_tx,
                    fds, first_cfg >>

\* result of a command that is not attempted because an earlier one failed
Skip(i) == [res |-> -1, hang |-> FALSE, n |-> i, io |-> << >>]

\* the channel loop of lgw_start, from iteration i on; gw_nb is
\* gw_info.nb_radio_rx, nb_rx the count mcu_config_rx checks the channel against
RECURSIVE rx_config_loop(_, _, _, _, _, _)
\* variant: the channels are visited in index order
rx_config_loop_in_order(c, gw_nb, nb_rx, rx, i, step) ==
    IF i >= gw_nb THEN [res |-> 0, hang |-> FALSE, n |-> step, io |-> << >>]
    ELSE Let(i % 3, LAMBDA idx :
             IF rx[idx].enable
             THEN IF ~rx[1].enable
                  THEN [res |-> -1, hang |-> FALSE, n |-> step, io |-> << >>]
                  ELSE Let(mcu_config_rx(c, nb_rx, idx, rx[idx], step), LAMBDA x :
                           IF x.res # 0 THEN x
                           ELSE Let(rx_config_loop(c, gw_nb, nb_rx, rx, i + 1, x.n),
                                    LAMBDA rest : [rest EXCEPT !.io = x.io \o rest.io]))
             ELSE rx_config_loop(c, gw_nb, nb_rx, rx, i + 1, step))

rx_config_loop(c, gw_nb, nb_rx, rx, i, step) ==
    IF i >= gw_nb THEN [res |-> 0, hang |-> FALSE, n |-> step, io |-> << >>]
    ELSE Let((i + 1) % 3, LAMBDA idx :
             IF rx[idx].enable
             THEN IF ~rx[1].enable
                  THEN [res |-> -1, hang |-> FALSE, n |-> step, io |-> << >>]
                  ELSE Let(mcu_config_rx(c, nb_rx, idx, rx[idx], step), LAMBDA x :
                           IF x.res # 0 THEN x
                           ELSE Let(rx_config_loop(c, gw_nb, nb_rx, rx, i + 1, x.n),
                                    LAMBDA rest : [rest EXCEPT !.io = x.io \o rest.io]))
             ELSE rx_config_loop(c, gw_nb, nb_rx, rx, i + 1, step))

\* variant: the last character of the version is not compared
version_ok_prefix(info) ==
    StrnEq(Tail(info.version), mcu_version_string, Len(mcu_version_string) - 2)

\* the version check of lgw_start: strncmp(version + 1, mcu_version_string, sizeof) = 0
version_ok(info) ==
    StrnEq(Tail(info.version), mcu_version_string, Len(mcu_version_string))

\* a command runs when the one before it succeeded
Then(prev, next(_)) == IF prev.res = 0 THEN next(prev.n) ELSE Skip(prev.n)

\* lgw_start once the lifecycle check has passed
lgw_start_run(tty_path, open, rx, env) ==
    Let(mcu_open(tty_path, open, env), LAMBDA o :
    Let([fd |-> o.fd, open |-> o.open, env |-> env], LAMBDA c :
    Let(IF o.fd # -1 THEN mcu_ping(c, 0)
        ELSE [res |-> -1, hang |-> FALSE, n |-> 0, io |-> << >>, info |-> [res |-> -1]],
        LAMBDA p :
    Let(IF p.res = 0 /\ version_ok(p.info)
        THEN mcu_reset(c, ToBool(RESET_TYPE.RX_ALL), p.n) ELSE Skip(p.n), LAMBDA r1 :
    Let(Then(r1, LAMBDA n : mcu_reset(c, ToBool(RESET_TYPE.TX), n)), LAMBDA r2 :
    Let(Then(r2, LAMBDA n : mcu_get_status(c, p.info.nb_radio_rx, n)), LAMBDA s :
    Let(Then(s, LAMBDA n : rx_config_loop(c, p.info.nb_radio_rx, p.info.nb_radio_rx, rx, 0, n)),
        LAMBDA l :
        [ret  |-> IF l.res = 0 THEN 0 ELSE -1,
         hang |-> p.hang \/ r1.hang \/ r2.hang \/ s.hang \/ l.hang,
         fd   |-> o.fd,
         open |-> o.open,
         io   |-> o.io \o p.io \o r1.io \o r2.io \o s.io \o l.io,
         info |-> p.info])))))))

\* out shows gw_info, the local the ping acknowledgment is decoded into
lgw_start(env) ==
    /\ pc = "idle"
    /\ call' = [op |-> "lgw_start"]
    /\ rx_warn' = NoWarn
    /\ IF lgw_is_started
       THEN /\ Return(-1)
            /\ io' = << >>
            /\ out' = << >>
            /\ UNCHANGED << mcu_fd, lgw_is_started, nb_radio_rx, nb_radio_tx, fds, first_cfg >>
       ELSE \E r \in { lgw_start_run(mcu_tty_path, fds, rx_channel, env) } :
                /\ mcu_fd' = r.fd
                /\ fds' = r.open
                /\ io' = r.io
                /\ out' = IF r.info.res = 0 THEN << r.info >> ELSE << >>
                /\ first_cfg' = IF r.hang \/ r.ret # 0 THEN first_cfg
                                ELSE IF first_cfg.starts = 0
                                THEN [starts |-> 1, nb |-> r.info.nb_radio_rx,
                                      reqs |-> ConfigRxWritten(r.io)]
                                ELSE IF first_cfg.starts < MaxCycles
                                THEN [first_cfg EXCEPT !.starts = @ + 1]
                                ELSE first_cfg
                /\ nb_radio_rx' = IF r.info.res = 0 THEN r.info.nb_radio_rx ELSE nb_radio_rx
                /\ nb_radio_tx' = IF r.info.res = 0 THEN r.info.nb_radio_tx ELSE nb_radio_tx
                /\ IF r.hang
                   THEN Block /\ UNCHANGED lgw_is_started
                   ELSE Return(r.ret) /\ lgw_is_started' = (r.ret = 0)
    /\ UNCHANGED << mcu_tty_path, rx_channel, tx_channel >>

\* variant: a failed reset ends lgw_stop with an error, the transport left open
lgw_stop_run_strict(fd, open, env) ==
    Let([fd |-> fd, open |-> open, env |-> env], LAMBDA c :
    Let(mcu_reset(c, ToBool(RESET_TYPE.RX_ALL), 0), LAMBDA r1 :
    Let(IF r1.hang THEN Skip(r1.n) ELSE mcu_reset(c, ToBool(RESET_TYPE.TX), r1.n), LAMBDA r2 :
    Let(mcu_close(fd, open), LAMBDA cl :
        IF r1.hang \/ r2.hang
        THEN [hang |-> TRUE, ret |-> -1, open |-> open, io |-> r1.io \o r2.io]
        ELSE IF r1.res # 0 \/ r2.res # 0
        THEN [hang |-> FALSE, ret |-> -1, open |-> open, io |-> r1.io \o r2.io]
        ELSE [hang |-> FALSE, ret |-> 0, open |-> cl.open, io |-> r1.io \o r2.io \o cl.io]))))

\* the two resets of lgw_stop; a failed reset is only reported
lgw_stop_run(fd, open, env) ==
    Let([fd |-> fd, open |-> open, env |-> env], LAMBDA c :
    Let(mcu_reset(c, ToBool(RESET_TYPE.RX_ALL), 0), LAMBDA r1 :
    Let(IF r1.hang THEN Skip(r1.n) ELSE mcu_reset(c, ToBool(RESET_TYPE.TX), r1.n), LAMBDA r2 :
    Let(mcu_close(fd, open), LAMBDA cl :
        IF r1.hang \/ r2.hang
        THEN [hang |-> TRUE, ret |-> -1, open |-> open, io |-> r1.io \o r2.io]
        ELSE [hang |-> FALSE, ret |-> 0, open |-> cl.open, io |-> r1.io \o r2.io \o cl.io]))))

\* variant: lgw_stop disables the RX channels
lgw_stop_forgetful(env) ==
    /\ pc = "idle"
    /\ call' = [op |-> "lgw_stop"]
    /\ rx_warn' = NoWarn
    /\ out' = << >>
    /\ lgw_is_started' = FALSE
    /\ rx_channel' = [i \in 0..(LGW_RX_CHANNEL_NB_MAX - 1) |->
                          [rx_channel[i] EXCEPT !.enable = FALSE]]
    /\ \E r \in { lgw_stop_run(mcu_fd, fds, env) } :
           /\ io' = r.io
           /\ fds' = r.open
           /\ IF r.hang THEN Block ELSE Return(r.ret)
    /\ UNCHANGED << mcu_tty_path, mcu_fd, tx_channel, nb_radio_rx, nb_radio_tx, first_cfg >>

lgw_stop(env) ==
    /\ pc = "idle"
    /\ call' = [op |-> "lgw_stop"]
    /\ rx_warn' = NoWarn
    /\ out' = << >>
    /\ lgw_is_started' = FALSE
    /\ \E r \in { lgw_stop_run(mcu_fd, fds, env) } :
           /\ io' = r.io
           /\ fds' = r.open
           /\ IF r.hang THEN Block ELSE Return(r.ret)
    /\ UNCHANGED << mcu_tty_path, mcu_fd, rx_channel, tx_channel, nb_radio_rx, nb_radio_tx,
                    first_cfg >>

\* variant: the RSSI offset of the channel is not applied
Enrich_raw_rssi(pkt, rx, g) ==
    LET ch == IF pkt.channel < LGW_RX_CHANNEL_NB_MAX THEN rx[pkt.channel] ELSE g
    IN  [pkt EXCEPT !.freq_hz = ch.freq_hz,
                    !.status = STAT_CRC_OK,
                    !.modulation = MOD_LORA,
                    !.bandwidth = ch.bandwidth,
                    !.datarate = ch.datarate,
                    !.coderate = CR_LORA_LI_4_7]

\* the metadata update of lgw_receive for one packet; g is what the lookup
\* rx_channel[pkt.channel] yields when pkt.channel is not an index of the table
Enrich(pkt, rx, g) ==
    LET ch == IF pkt.channel < LGW_RX_CHANNEL_NB_MAX THEN rx[pkt.channel] ELSE g
    IN  [pkt EXCEPT !.freq_hz = ch.freq_hz,
                    !.status = STAT_CRC_OK,
                    !.modulation = MOD_LORA,
                    !.bandwidth = ch.bandwidth,
                    !.datarate = ch.datarate,
                    !.coderate = CR_LORA_LI_4_7,
                    !.rssi = @ + ch.rssi_offset]

\* variant: the packets fetched before a failure are counted
lgw_receive_run_partial(fd, open, nb_rx, rx, max_pkt, env, g) ==
    Let([fd |-> fd, open |-> open, env |-> env], LAMBDA c :
    Let(mcu_receive(c, max_pkt, 0), LAMBDA m :
    Let(Then(m, LAMBDA n : mcu_get_status(c, nb_rx, n)), LAMBDA s :
        [hang |-> m.hang \/ s.hang,
         ret  |-> Len(m.pkts),
         io   |-> m.io \o s.io,
         warn |-> m.warn,
         pkts |-> IF s.res = 0 THEN [k \in 1..Len(m.pkts) |-> Enrich(m.pkts[k], rx, g)]
                  ELSE m.pkts])))

\* variant: a CRC-error counter above zero fails the call
lgw_receive_run_crc_fatal(fd, open, nb_rx, rx, max_pkt, env, g) ==
    Let([fd |-> fd, open |-> open, env |-> env], LAMBDA c :
    Let(mcu_receive(c, max_pkt, 0), LAMBDA m :
    Let(Then(m, LAMBDA n : mcu_get_status(c, nb_rx, n)), LAMBDA s :
    Let(s.res = 0 /\ \A k \in 0..(nb_rx - 1) : s.status.rx_crc_err[k] = 0, LAMBDA fine :
        [hang |-> m.hang \/ s.hang,
         ret  |-> IF fine THEN Len(m.pkts) ELSE -1,
         io   |-> m.io \o s.io,
         warn |-> m.warn,
         pkts |-> IF fine THEN [k \in 1..Len(m.pkts) |-> Enrich(m.pkts[k], rx, g)]
                  ELSE m.pkts]))))

\* lgw_receive once the lifecycle check has passed
lgw_receive_run(fd, open, nb_rx, rx, max_pkt, env, g) ==
    Let([fd |-> fd, open |-> open, env |-> env], LAMBDA c :
    Let(mcu_receive(c, max_pkt, 0), LAMBDA m :
    Let(Then(m, LAMBDA n : mcu_get_status(c, nb_rx, n)), LAMBDA s :
        [hang |-> m.hang \/ s.hang,
         ret  |-> IF s.res = 0 THEN Len(m.pkts) ELSE -1,
         io   |-> m.io \o s.io,
         warn |-> m.warn,
         pkts |-> IF s.res = 0 THEN [k \in 1..Len(m.pkts) |-> Enrich(m.pkts[k], rx, g)]
                  ELSE m.pkts])))

lgw_receive(max_pkt, env, g) ==
    /\ pc = "idle"
    /\ call' = [op |-> "lgw_receive", max_pkt |-> max_pkt]
    /\ IF ~lgw_is_started
       THEN Return(-1) /\ io' = << >> /\ out' = << >> /\ rx_warn' = NoWarn
       ELSE \E r \in { lgw_receive_run(mcu_fd, fds, nb_radio_rx, rx_channel, max_pkt, env, g) } :
                /\ io' = r.io
                /\ rx_warn' = r.warn
                /\ out' = r.pkts
                /\ IF r.hang THEN Block ELSE Return(r.ret)
    /\ UNCHANGED << mcu_tty_path, mcu_fd, lgw_is_started, rx_channel, tx_channel,
                    nb_radio_rx, nb_radio_tx, fds, first_cfg >>

\* variant: a failed exchange leaves the lifecycle Stopped
lgw_send_stopping(pkt, env) ==
    /\ pc = "idle"
    /\ call' = [op |-> "lgw_send", pkt |-> pkt]
    /\ rx_warn' = NoWarn
    /\ out' = << >>
    /\ IF ~lgw_is_started
       THEN Return(-1) /\ io' = << >> /\ UNCHANGED lgw_is_started
       ELSE \E r \in { mcu_prepare_tx([fd |-> mcu_fd, open |-> fds, env |-> env], nb_radio_rx, pkt, 0) } :
                /\ io' = r.io
                /\ lgw_is_started' = (r.hang \/ r.res = 0)
                /\ IF r.hang THEN Block ELSE Return(r.res)
    /\ UNCHANGED << mcu_tty_path, mcu_fd, rx_channel, tx_channel,
                    nb_radio_rx, nb_radio_tx, fds, first_cfg >>

lgw_send(pkt, env) ==
    /\ pc = "idle"
    /\ call' = [op |-> "lgw_send", pkt |-> pkt]
    /\ rx_warn' = NoWarn
    /\ out' = << >>
    /\ IF ~lgw_is_started
       THEN Return(-1) /\ io' = << >>
       ELSE \E r \in { mcu_prepare_tx([fd |-> mcu_fd, open |-> fds, env |-> env], nb_radio_rx, pkt, 0) } :
                /\ io' = r.io
                /\ IF r.hang THEN Block ELSE Return(r.res)
    /\ UNCHANGED << mcu_tty_path, mcu_fd, lgw_is_started, rx_channel, tx_channel,
                    nb_radio_rx, nb_radio_tx, fds, first_cfg >>

\* variant: the status is queried whatever the lifecycle
status_getter_unguarded(op, field, env) ==
    /\ pc = "idle"
    /\ call' = [op |-> op]
    /\ rx_warn' = NoWarn
    /\ \E s \in { mcu_get_status([fd |-> mcu_fd, open |-> fds, env |-> env], nb_radio_rx, 0) } :
           /\ io' = s.io
           /\ out' = IF s.res = 0 THEN << s.status[field] >> ELSE << >>
           /\ IF s.hang THEN Block ELSE Return(s.res)
    /\ UNCHANGED << mcu_tty_path, mcu_fd, lgw_is_started, rx_channel, tx_channel,
                    nb_radio_rx, nb_radio_tx, fds, first_cfg >>

\* lgw_get_temperature, lgw_get_trigcnt, lgw_get_instcnt: one status query,
\* one field of it written to the output parameter
status_getter(op, field, env) ==
    /\ pc = "idle"
    /\ call' = [op |-> op]
    /\ rx_warn' = NoWarn
    /\ IF ~lgw_is_started
       THEN Return(-1) /\ io' = << >> /\ out' = << >>
       ELSE \E s \in { mcu_get_status([fd |-> mcu_fd, open |-> fds, env |-> env], nb_radio_rx, 0) } :
                /\ io' = s.io
                /\ out' = IF s.res = 0 THEN << s.status[field] >> ELSE << >>
                /\ IF s.hang THEN Block ELSE Return(s.res)
    /\ UNCHANGED << mcu_tty_path, mcu_fd, lgw_is_started, rx_channel, tx_channel,
                    nb_radio_rx, nb_radio_tx, fds, first_cfg >>

\* the temperature is kept in hundredths of a degree
lgw_get_temperature(env) == status_getter("lgw_get_temperature", "temperature", env)

lgw_get_trigcnt(env) == status_getter("lgw_get_trigcnt", "pps_time_us", env)

lgw_get_instcnt(env) == status_getter("lgw_get_instcnt", "precise_time_us", env)

\* variant: a finished transmission is not reported as free
TxStatusCode_done_unknown(tx_status) ==
    IF tx_status = TX_MSG_STATUS.IDLE THEN TX_FREE
    ELSE IF tx_status = TX_MSG_STATUS.LOADED THEN TX_SCHEDULED
    ELSE IF tx_status = TX_MSG_STATUS.ON_AIR THEN TX_EMITTING
    ELSE TX_STATUS_UNKNOWN

\* the switch of lgw_status
TxStatusCode(tx_status) ==
    IF tx_status \in {TX_MSG_STATUS.IDLE, TX_MSG_STATUS.DONE} THEN TX_FREE
    ELSE IF tx_status = TX_MSG_STATUS.LOADED THEN TX_SCHEDULED
    ELSE IF tx_status = TX_MSG_STATUS.ON_AIR THEN TX_EMITTING
    ELSE TX_STATUS_UNKNOWN

\* *code is written on success only
lgw_status(select, env) ==
    /\ pc = "idle"
    /\ call' = [op |-> "lgw_status", select |-> select]
    /\ rx_warn' = NoWarn
    /\ IF select = TX_STATUS /\ lgw_is_started
       THEN \E r \in { mcu_get_tx_status([fd |-> mcu_fd, open |-> fds, env |-> env], 0) } :
                /\ io' = r.io
                /\ out' = IF ~r.hang /\ r.res = 0 THEN << TxStatusCode(r.status) >> ELSE << >>
                /\ IF r.hang THEN Block ELSE Return(r.res)
       ELSE /\ io' = << >>
            /\ out' = IF select = TX_STATUS THEN << TX_OFF >>
                      ELSE IF select = RX_STATUS
                      THEN << IF lgw_is_started THEN RX_ON ELSE RX_OFF >>
                      ELSE << >>
            /\ Return(IF select \in {TX_STATUS, RX_STATUS} THEN 0 ELSE -1)
    /\ UNCHANGED << mcu_tty_path, mcu_fd, lgw_is_started, rx_channel, tx_channel,
                    nb_radio_rx, nb_radio_tx, fds, first_cfg >>

\* no lifecycle check; call.fault records the fault of the environment
lgw_abort_tx(env) ==
    /\ pc = "idle"
    /\ call' = [op |-> "lgw_abort_tx", fault |-> env.kind]
    /\ rx_warn' = NoWarn
    /\ out' = << >>
    /\ \E r \in { mcu_reset([fd |-> mcu_fd, open |-> fds, env |-> env], ToBool(RESET_TYPE.TX), 0) } :
           /\ io' = r.io
           /\ IF r.hang THEN Block ELSE Return(r.res)
    /\ UNCHANGED << mcu_tty_path, mcu_fd, lgw_is_started, rx_channel, tx_channel,
                    nb_radio_rx, nb_radio_tx, fds, first_cfg >>

\* variant: the low word of the unique id is not added
lgw_get_eui_id_high_only(gw_info) ==
    << Shr8(gw_info.unique_id_high, 24),
       Shr8(gw_info.unique_id_high, 16),
       Shr8(gw_info.unique_id_high, 8),
       Shr8(gw_info.unique_id_high, 0),
       Shr8(gw_info.unique_id_mid, 24), Shr8(gw_info.unique_id_mid, 16),
       Shr8(gw_info.unique_id_mid, 8), Shr8(gw_info.unique_id_mid, 0) >>

\* id[7], id[6], ..., id[0]: the bytes of *eui from the most significant one
lgw_get_eui_id(gw_info) ==
    << Shr8(Add32(gw_info.unique_id_high, gw_info.unique_id_low), 24),
       Shr8(Add32(gw_info.unique_id_high, gw_info.unique_id_low), 16),
       Shr8(Add32(gw_info.unique_id_high, gw_info.unique_id_low), 8),
       Shr8(Add32(gw_info.unique_id_high, gw_info.unique_id_low), 0),
       Shr8(gw_info.unique_id_mid, 24), Shr8(gw_info.unique_id_mid, 16),
       Shr8(gw_info.unique_id_mid, 8), Shr8(gw_info.unique_id_mid, 0) >>

\* no lifecycle check; the ping stores the radio counts it decodes
lgw_get_eui(env) ==
    /\ pc = "idle"
    /\ call' = [op |-> "lgw_get_eui", fault |-> env.kind]
    /\ rx_warn' = NoWarn
    /\ \E r \in { mcu_ping([fd |-> mcu_fd, open |-> fds, env |-> env], 0) } :
           /\ io' = r.io
           /\ out' = IF ~r.hang /\ r.res = 0 THEN << lgw_get_eui_id(r.info) >> ELSE << >>
           /\ nb_radio_rx' = IF r.info.res = 0 THEN r.info.nb_radio_rx ELSE nb_radio_rx
           /\ nb_radio_tx' = IF r.info.res = 0 THEN r.info.nb_radio_tx ELSE nb_radio_tx
           /\ IF r.hang THEN Block ELSE Return(r.res)
    /\ UNCHANGED << mcu_tty_path, mcu_fd, lgw_is_started, rx_channel, tx_channel, fds, first_cfg >>

(* ------------------------------------------------------------------------ *)
(* Inputs of the calls and answers of the environment                        *)

BoardConfSet == { [tty_path |-> "/dev/ttyACM0"] }

\* the zero-initialised entry of the static table; also a disabled configuration
ConfZ == [enable |-> FALSE, freq_hz |-> 0, datarate |-> 0, bandwidth |-> 0,
          rssi_offset |-> 0, sync_word |-> 0]

ConfA == [enable |-> TRUE, freq_hz |-> 1403000000, datarate |-> DR_LORA_SF12,
          bandwidth |-> BW_800KHZ, rssi_offset |-> -3, sync_word |-> 33]

ConfB == [enable |-> TRUE, freq_hz |-> 1479000000, datarate |-> DR_LORA_SF5,
          bandwidth |-> BW_200KHZ, rssi_offset |-> 2, sync_word |-> 18]

ConfC == [enable |-> TRUE, freq_hz |-> 1440000000, datarate |-> DR_LORA_SF7,
          bandwidth |-> BW_1600KHZ, rssi_offset |-> 5, sync_word |-> 52]

ConfSet == { ConfZ, ConfA, ConfB }

\* one configuration of its own for each channel
ConfOf(channel) == IF channel = 0 THEN ConfA ELSE IF channel = 1 THEN ConfB ELSE ConfC

TxConfSet == { [enable |-> TRUE], [enable |-> FALSE] }

TxPktSet ==
    { [freq_hz |-> 1425000000, tx_mode |-> IMMEDIATE, count_us |-> 16909060, rf_power |-> -5,
       bandwidth |-> BW_1600KHZ, datarate |-> DR_LORA_SF7, coderate |-> CR_LORA_4_5,
       invert_pol |-> TRUE, preamble |-> 8, no_crc |-> FALSE, no_header |-> FALSE,
       size |-> 2, payload |-> << 202, 254 >>] }

\* a packet whose coding rate is none of those mcu_prepare_tx encodes
TxPktBadCr ==
    [freq_hz |-> 1425000000, tx_mode |-> IMMEDIATE, count_us |-> 16909060, rf_power |-> -5,
     bandwidth |-> BW_1600KHZ, datarate |-> DR_LORA_SF7, coderate |-> 0,
     invert_pol |-> TRUE, preamble |-> 8, no_crc |-> FALSE, no_header |-> FALSE,
     size |-> 2, payload |-> << 202, 254 >>]

\* a packet of 256 payload bytes: size is a uint16_t and payload has 256 bytes
TxPktLong ==
    [freq_hz |-> 1425000000, tx_mode |-> IMMEDIATE, count_us |-> 16909060, rf_power |-> -5,
     bandwidth |-> BW_1600KHZ, datarate |-> DR_LORA_SF7, coderate |-> CR_LORA_4_5,
     invert_pol |-> TRUE, preamble |-> 8, no_crc |-> FALSE, no_header |-> FALSE,
     size |-> 256, payload |-> [k \in 1..256 |-> k % 256]]

FaultKinds == { "wfail", "rfail", "eintr", "badtype", "nack", "short", "toolarge" }

\* "R01.00.01", "D01.00.01" (accepted: the first character is ignored),
\* "R01.00.02", "R11.00.01" and "R01.00.0" followed by NUL (rejected)
VerOk == << 82, 48, 49, 46, 48, 48, 46, 48, 49 >>
VerDbg == << 68, 48, 49, 46, 48, 48, 46, 48, 49 >>
VerBadSet == { << 82, 48, 49, 46, 48, 48, 46, 48, 50 >>,
               << 82, 49, 49, 46, 48, 48, 46, 48, 49 >>,
               << 82, 48, 49, 46, 48, 48, 46, 48, 0 >> }

PingOf(ver, nb) ==
    FwAckPing(<< 286331153, 572662306, 858993459 >>, ver, IF nb > 0 THEN 1 ELSE 0, nb)

\* status acknowledgment of a concentrator with nb RX radios
StatusOf(nb, temp, cnt) ==
    FwAckStatus(1000, 123456789, 1, 987654, temp, [k \in 1..(4 * nb) |-> cnt])

\* an event of radio 2 and one of a radio index beyond the RX table
EvtSet ==
    { FwEvtMsg(2, 33818120, 0, 0, 10, << 255 >>),
      FwEvtMsg(3, 5, -1, 1, -1, << 9 >>) }

\* the events the concentrator has pending when faults are injected
EvtList == << FwEvtMsg(1, 16909061, 250, -5, -120, << >>),
              FwEvtMsg(0, 16909060, -100, 7, -60, << 1, 2, 3 >>) >>

MkEnv(bad, kind, open, ping, status, rxmsg, events) ==
    [bad |-> bad, kind |-> kind, open |-> open, ping |-> ping, status |-> status,
     rxmsg |-> rxmsg, events |-> events]

\* an environment without fault, and one with a fault of kind k at the steps bad
Good(ping, status, rxmsg, events) == MkEnv({}, "none", "ok", ping, status, rxmsg, events)

Faulty(bad, k, ping, status, rxmsg, events) == MkEnv(bad, k, "ok", ping, status, rxmsg, events)

\* a concentrator of nb RX radios running the expected firmware
Board(nb) == Good(PingOf(VerOk, nb), StatusOf(nb, 2550, 0), << >>, << >>)

\* the serial device cannot be opened or configured
OpenFailEnvs ==
    { MkEnv({}, "none", o, PingOf(VerOk, 3), StatusOf(3, 2550, 0), << >>, << >>) :
        o \in {"fail", "attr_fail"} }

\* environments of a call that only exchanges status
StatusEnvs(nb, kinds) ==
    { Good(<< >>, StatusOf(nb, t, 0), << >>, << >>) : t \in {2550, 65086} }
    \cup { Faulty({0}, k, << >>, StatusOf(nb, 2550, 0), << >>, << >>) : k \in kinds }

\* transport steps of lgw_start with three RX radios: ping, six resets,
\* status, three channel configurations
StartSteps == 0..(7 + LGW_RX_CHANNEL_NB_MAX)

\* lgw_start: every radio count, every firmware version, and one fault at each
\* transport step of a three-radio concentrator
StartEnvs ==
    OpenFailEnvs
    \cup { Board(nb) : nb \in 0..MaxRadioRx }
    \cup { Good(PingOf(v, 3), StatusOf(3, 2550, 0), << >>, << >>) : v \in VerBadSet \cup {VerDbg} }
    \cup { Faulty({i}, k, PingOf(VerOk, 3), StatusOf(3, 2550, 0), << >>, << >>) :
             i \in StartSteps, k \in FaultKinds }

\* transport steps of lgw_stop: six resets
StopSteps == 0..5

\* lgw_stop: no fault, one fault at each step, the same fault at every step
StopEnvs ==
    { Good(<< >>, << >>, << >>, << >>) }
    \cup { Faulty({i}, k, << >>, << >>, << >>, << >>) : i \in StopSteps, k \in FaultKinds }
    \cup { Faulty(StopSteps, k, << >>, << >>, << >>, << >>) : k \in FaultKinds }

\* the lists of at most n events drawn from evts
EvtLists(evts, n) == UNION { [1..m -> evts] : m \in 0..n }

\* lgw_receive: the events of ev pending and announced, no fault
ReceiveGood(nb, ev) ==
    Good(<< >>, StatusOf(nb, 2550, 0), FwAckGetRxMsg(Len(ev), 0, 0, 0), ev)

\* lgw_receive: the events of ev pending and announced, lost messages lost
ReceiveLost(nb, ev, lost) ==
    Good(<< >>, StatusOf(nb, 2550, 0), FwAckGetRxMsg(Len(ev), 0, 0, lost), ev)

\* lgw_receive: one fault at each transport step with the events of EvtList pending
ReceiveFaulty(nb, kinds) ==
    { Faulty({i}, k, << >>, StatusOf(nb, 2550, 0), FwAckGetRxMsg(Len(EvtList), 0, 0, 0), EvtList) :
        i \in 0..(Len(EvtList) + 1), k \in kinds }

\* lgw_receive: status replies whose CRC-ok counters (bytes 0 and 1 of each
\* radio), CRC-error counters (bytes 2 and 3) or both hold fb[2] in both bytes,
\* without fault and with a reply of the wrong type at the second read
ReceiveCrcEnvs(nb) ==
    { MkEnv(bad, "badtype", "ok", << >>,
            FwAckStatus(1000, 123456789, 1, 987654, 2550,
                        [k \in 1..(4 * nb) |-> IF ((k - 1) % 4) \in fb[1] THEN fb[2] ELSE 0]),
            FwAckGetRxMsg(Len(ev), 0, 0, 0), ev) :
        bad \in {{}, {1}}, ev \in {<< >>, EvtList},
        fb \in { << {0, 1}, 1 >>, << {2, 3}, 255 >>, << {0, 1, 2, 3}, 255 >> } }

\* what rx_channel[pkt.channel] can yield for the events of env
Beyond(env) ==
    IF \E k \in 1..Len(env.events) :
           At(env.events[k], HEADER_CMD_SIZE + EVT_MSG_RECEIVE.RADIO_IDX) >= LGW_RX_CHANNEL_NB_MAX
    THEN { ConfZ, ConfB } ELSE { ConfZ }

SendEnvs(kinds) ==
    { Good(<< >>, << >>, << >>, << >>) }
    \cup { Faulty({0}, k, << >>, << >>, << >>, << >>) : k \in kinds }

\* status bytes of a get-TX-status acknowledgment: the seven firmware states,
\* the next value and the largest byte
TxStatusSet == (TX_MSG_STATUS.IDLE..(TX_MSG_STATUS.ERROR_TX_TIMEOUT + 1)) \cup {255}

\* lgw_status: every status byte, and a fault at the exchange
TxStatusEnvs(kinds) ==
    { Good(<< >>, FwAck1(ORDER_ID.ACK_GET_TX_STATUS, st), << >>, << >>) : st \in TxStatusSet }
    \cup { Faulty({0}, k, << >>, FwAck1(ORDER_ID.ACK_GET_TX_STATUS, TX_MSG_STATUS.IDLE), << >>, << >>) :
              k \in kinds }

\* lgw_abort_tx: no fault, a fault at each reset exchange
AbortEnvs(kinds) ==
    { Good(<< >>, << >>, << >>, << >>) }
    \cup { Faulty({i}, k, << >>, << >>, << >>, << >>) : i \in 0..2, k \in kinds }

\* lgw_get_eui: boards without and with RX radios, a fault at the ping of a
\* board with one RX radio
PingEnvs(kinds) ==
    { Board(nb) : nb \in {0, 3} }
    \cup { Faulty({0}, k, PingOf(VerOk, 1), << >>, << >>, << >>) : k \in kinds }

\* 32-bit words of a unique id, most significant byte first: 0x11111111,
\* 0x33333333, 0xFFFFFFFF, 0x0000FFFF, 0x80000001
UidWords == { << 17, 17, 17, 17 >>, << 51, 51, 51, 51 >>, << 255, 255, 255, 255 >>,
              << 0, 0, 255, 255 >>, << 128, 0, 0, 1 >> }

\* middle words: 0x22222222, 0xFFFFFFFF, 0
UidMid == { << 34, 34, 34, 34 >>, << 255, 255, 255, 255 >>, << 0, 0, 0, 0 >> }

EuiEnvs ==
    { Good(FwAckPingBytes(h \o m \o l, VerOk, 1, 3), << >>, << >>, << >>) :
        h \in UidWords, m \in UidMid, l \in UidWords }

\* outcomes of one read: a failed read, or at most n bytes handed over
ReadFails(err) == [err |-> err, n |-> 0]

ReadGives(n) == [err |-> "none", n |-> n]

ReadOutcomes ==
    { ReadFails("EINTR"), ReadFails("EIO") } \cup { ReadGives(n) : n \in 0..HEADER_CMD_SIZE }

\* the outcomes of the first reads of a call; every later read returns all
\* that was asked
ReadScripts ==
    { << >> } \cup { << a >> : a \in ReadOutcomes } \cup { << a, b >> : a, b \in ReadOutcomes }

\* a reply of n payload bytes
FwReply(cmd, n) == FwFrame(cmd, [k \in 1..n |-> k % 256])

\* what the concentrator sends: a reset acknowledgment followed by another
\* one, a two-byte reply followed by a reset acknowledgment, a reply without
\* payload, a ping reply, the beginning of a reply that fills the buffer
\* exactly, and the beginning of one that declares one byte more than that
AckStreams ==
    { FwAck1(ORDER_ID.ACK_RESET, 0) \o FwAck1(ORDER_ID.ACK_RESET, 0),
      FwReply(ORDER_ID.ACK_GET_TX_STATUS, 2) \o FwAck1(ORDER_ID.ACK_RESET, 0),
      FwReply(ORDER_ID.ACK_PING, 0),
      PingOf(VerOk, 3),
      << 0 >> \o Bytes16(READ_SIZE_MAX - HEADER_CMD_SIZE)
             \o << ORDER_ID.EVT_MSG_RECEIVE, 1, 2 >>,
      << 0 >> \o Bytes16(READ_SIZE_MAX - HEADER_CMD_SIZE + 1)
             \o << ORDER_ID.EVT_MSG_RECEIVE, 1, 2 >> }

\* errno before the call: untouched, or left at EINTR by an earlier
\* interrupted system call of the process
ErrnoSet == { "none", "EINTR" }

(* ------------------------------------------------------------------------ *)
(* Specifications                                                            *)

Init ==
    /\ mcu_tty_path = ""
    /\ mcu_fd = 0
    /\ lgw_is_started = FALSE
    /\ rx_channel = [i \in 0..(LGW_RX_CHANNEL_NB_MAX - 1) |-> ConfZ]
    /\ tx_channel = [enable |-> FALSE]
    /\ nb_radio_rx = 0
    /\ nb_radio_tx = 0
    /\ fds = {0}
    /\ pc = "idle"
    /\ call = [op |-> "none"]
    /\ ret = << >>
    /\ io = << >>
    /\ out = << >>
    /\ first_cfg = NoCfg
    /\ rx_warn = NoWarn

\* every call of the library in every lifecycle state, against a three-radio
\* concentrator that answers or fails at the first exchange
Next ==
    \/ \E conf \in BoardConfSet : lgw_board_setconf(conf)
    \/ \E channel \in 0..LGW_RX_CHANNEL_NB_MAX, conf \in {ConfZ, ConfA}, clobber \in BOOLEAN :
           lgw_channel_rx_setconf(channel, conf, clobber)
    \/ \E conf \in TxConfSet : lgw_channel_tx_setconf(conf)
    \/ \E env \in OpenFailEnvs \cup {Board(3)} : lgw_start(env)
    \/ \E env \in {Good(<< >>, << >>, << >>, << >>)} : lgw_stop(env)
    \/ \E max_pkt \in {MaxPkt}, env \in {ReceiveGood(nb_radio_rx, ev) : ev \in EvtLists({EvtList[1]}, 1)} :
           lgw_receive(max_pkt, env, ConfZ)
    \/ \E pkt \in TxPktSet, env \in SendEnvs({"nack"}) : lgw_send(pkt, env)
    \/ \E env \in StatusEnvs(nb_radio_rx, {"rfail"}) : lgw_get_temperature(env)
    \/ \E env \in StatusEnvs(nb_radio_rx, {"rfail"}) : lgw_get_trigcnt(env)
    \/ \E env \in StatusEnvs(nb_radio_rx, {"rfail"}) : lgw_get_instcnt(env)

Spec == Init /\ [][Next]_vars

\* the start-up sequence: every RX table, every environment of lgw_start
NextStart ==
    \/ \E conf \in BoardConfSet : lgw_board_setconf(conf)
    \/ \E channel \in 0..(LGW_RX_CHANNEL_NB_MAX - 1), conf \in ConfSet :
           lgw_channel_rx_setconf(channel, conf, FALSE)
    \/ \E env \in StartEnvs : lgw_start(env)

SpecStart == Init /\ [][NextStart]_vars

\* the teardown: every environment of lgw_stop, in every lifecycle state
NextStop ==
    \/ \E conf \in BoardConfSet : lgw_board_setconf(conf)
    \/ \E conf \in {ConfZ, ConfA} : lgw_channel_rx_setconf(1, conf, FALSE)
    \/ \E env \in OpenFailEnvs \cup {Board(3)} : lgw_start(env)
    \/ \E env \in StopEnvs : lgw_stop(env)

SpecStop == Init /\ [][NextStop]_vars

\* reception: every channel disabled or configured, every list of pending
\* events, every fault
NextRx ==
    \/ \E conf \in BoardConfSet : lgw_board_setconf(conf)
    \/ \E channel \in 0..(LGW_RX_CHANNEL_NB_MAX - 1) : \E conf \in {ConfZ, ConfOf(channel)} :
           lgw_channel_rx_setconf(channel, conf, FALSE)
    \/ \E env \in {Board(3)} : lgw_start(env)
    \/ \E max_pkt \in 0..MaxPkt,
          env \in {ReceiveGood(nb_radio_rx, ev) : ev \in EvtLists(EvtSet, MaxEvt) \cup {EvtList}}
                  \cup {ReceiveLost(nb_radio_rx, ev, 2) : ev \in {<< >>, EvtList}}
                  \cup ReceiveFaulty(nb_radio_rx, {"wfail", "rfail", "eintr", "badtype", "short",
                                                 "toolarge"}) :
           \E g \in Beyond(env) : lgw_receive(max_pkt, env, g)

SpecRx == Init /\ [][NextRx]_vars

\* the commands of a running or stopped concentrator: transmission, status,
\* abort and unique id in every lifecycle state, on boards of 0, 1 and 3 RX radios
\* every call of a concentrator of three radios, with a fault at the first
\* exchanges of the call or none
NextAll ==
    \/ \E conf \in BoardConfSet : lgw_board_setconf(conf)
    \/ \E conf \in {ConfZ, ConfA} : lgw_channel_rx_setconf(1, conf, FALSE)
    \/ \E conf \in TxConfSet : lgw_channel_tx_setconf(conf)
    \/ \E env \in {Board(3)}
                  \cup { Faulty({i}, k, PingOf(VerOk, 3), StatusOf(3, 2550, 0), << >>, << >>) :
                           i \in {0, 4, 7, 8}, k \in {"rfail", "badtype"} } : lgw_start(env)
    \/ \E env \in AbortEnvs({"wfail", "rfail", "badtype", "nack"}) : lgw_stop(env)
    \/ \E env \in { ReceiveGood(nb_radio_rx, << >>), ReceiveGood(nb_radio_rx, EvtList) }
                  \cup ReceiveCrcEnvs(nb_radio_rx)
                  \cup ReceiveFaulty(nb_radio_rx, {"wfail", "rfail", "badtype"}) :
           lgw_receive(MaxPkt, env, ConfZ)
    \/ \E pkt \in TxPktSet \cup {TxPktLong}, env \in SendEnvs({"wfail", "rfail", "badtype", "nack"}) :
           lgw_send(pkt, env)
    \/ \E select \in {TX_STATUS, RX_STATUS}, env \in TxStatusEnvs({"wfail", "rfail", "badtype"}) :
           lgw_status(select, env)
    \/ \E env \in AbortEnvs({"wfail", "rfail", "badtype", "nack"}) : lgw_abort_tx(env)
    \/ \E env \in {Board(3), Faulty({0}, "rfail", PingOf(VerOk, 3), << >>, << >>, << >>)} :
           lgw_get_eui(env)
    \/ \E env \in StatusEnvs(nb_radio_rx, {"wfail", "rfail", "badtype"}) : lgw_get_temperature(env)
    \/ \E env \in StatusEnvs(nb_radio_rx, {"wfail", "rfail", "badtype"}) : lgw_get_trigcnt(env)
    \/ \E env \in StatusEnvs(nb_radio_rx, {"wfail", "rfail", "badtype"}) : lgw_get_instcnt(env)

SpecAll == Init /\ [][NextAll]_vars

\* the macros of loragw_aux.h
MIN(a, b) == IF a < b THEN a ELSE b

MAX(a, b) == IF a > b THEN a ELSE b

\* ceil(a / b) of the quotient of two integers, b > 0: the operands of every
\* ceil() of lgw_time_on_air are multiples of 1/4 divided by an integer
CeilDiv(a, b) == -((-a) \div b)

\* variant: any other bandwidth is taken as 200 kHz
ToaBw_default_200(bandwidth) ==
    CASE bandwidth = BW_200KHZ  -> 203
      [] bandwidth = BW_400KHZ  -> 406
      [] bandwidth = BW_800KHZ  -> 812
      [] bandwidth = BW_1600KHZ -> 1625
      [] OTHER -> 203

\* bw after the switch of lgw_time_on_air, 0 when the default case is taken
ToaBw(bandwidth) ==
    CASE bandwidth = BW_200KHZ  -> 203
      [] bandwidth = BW_400KHZ  -> 406
      [] bandwidth = BW_800KHZ  -> 812
      [] bandwidth = BW_1600KHZ -> 1625
      [] OTHER -> 0

\* variant: the byte count is kept in a uint8_t
ToaTotalBytes_u8(pkt) == (pkt.size + 2 * (IF pkt.no_crc THEN 0 ELSE 1)) % 256

\* total_bytes_nb
ToaTotalBytes(pkt) == pkt.size + 2 * (IF pkt.no_crc THEN 0 ELSE 1)

\* tx_infobits_header as first computed
ToaInfobitsHeader(pkt) ==
    pkt.datarate * 4 + (IF pkt.datarate <= 6 THEN 1 ELSE 0) * 8 - 8
        - (IF pkt.no_header THEN 0 ELSE 20)

\* variant: the header bits are never capped by the payload size
ToaInfobitsPayload_uncapped(pkt, total) ==
    IF pkt.coderate > 4 /\ pkt.no_header
    THEN << >>
    ELSE << MAX(0, 8 * total - ToaInfobitsHeader(pkt)) >>

\* << tx_infobits_payload >> in the two branches that compute it, << >> in the
\* branch of long interleaving without header
ToaInfobitsPayload(pkt, total) ==
    IF pkt.coderate <= 4
    THEN << MAX(0, 8 * total - ToaInfobitsHeader(pkt)) >>
    ELSE IF ~pkt.no_header
    THEN Let(IF ToaInfobitsHeader(pkt) < 8 * total
             THEN MIN(ToaInfobitsHeader(pkt), 8 * pkt.size)
             ELSE ToaInfobitsHeader(pkt), LAMBDA tx_infobits_header :
             << MAX(0, 8 * total - tx_infobits_header) >>)
    ELSE << >>

\* symbols_nb_data, with fec_rate = 4 / den
ToaSymbolsData(pkt, total, den) ==
    Let(pkt.datarate <= 6, LAMBDA fine_synch :
    Let(pkt.coderate > 4, LAMBDA long_interleaving :
    Let(pkt.datarate - 2 * (IF pkt.datarate >= 11 THEN 1 ELSE 0), LAMBDA tx_bits_symbol :
        IF ~long_interleaving
        THEN 8 + CeilDiv(ToaInfobitsPayload(pkt, total)[1], 4 * tx_bits_symbol)
                     * (pkt.coderate + 4)
        ELSE IF ~pkt.no_header
        THEN 8 + CeilDiv(ToaInfobitsPayload(pkt, total)[1] * den, 4 * tx_bits_symbol)
        ELSE Let(pkt.datarate - 2 + 2 * (IF fine_synch THEN 1 ELSE 0), LAMBDA tx_bits_symbol_start :
             Let(CeilDiv(8 * total * den, 4 * tx_bits_symbol_start), LAMBDA symbols_nb_start :
                 IF symbols_nb_start < 8
                 THEN symbols_nb_start
                 ELSE 8 + CeilDiv(8 * total * den - 4 * (tx_bits_symbol_start * 8),
                                  4 * tx_bits_symbol))))))

\* lgw_time_on_air: the value returned, the data-symbol count, the payload
\* information bits, the divisor of the symbol period and *result as the fraction num / den. The doubles hold
\* multiples of 1/4 exactly up to the product with the symbol period
time_on_air(pkt) ==
    Let(ToaBw(pkt.bandwidth), LAMBDA bw :
        IF bw = 0
        THEN [ret |-> 0, symbols_nb_data |-> 0, tx_infobits_payload |-> << >>,
              divisors |-> << >>, result |-> << >>]
        ELSE Let(IF pkt.coderate > 4
                 THEN pkt.coderate + (IF pkt.coderate = 7 THEN 1 ELSE 0)
                 ELSE 4 + pkt.coderate, LAMBDA den :
             Let(ToaSymbolsData(pkt, ToaTotalBytes(pkt), den), LAMBDA symbols_nb_data :
             Let((4 * pkt.preamble + 17 + 8 * (IF pkt.datarate <= 6 THEN 1 ELSE 0)
                  + 4 * symbols_nb_data) * 2 ^ pkt.datarate, LAMBDA num :
                 [ret |-> CeilDiv(num, 4 * bw), symbols_nb_data |-> symbols_nb_data,
                  tx_infobits_payload |-> ToaInfobitsPayload(pkt, ToaTotalBytes(pkt)),
                  divisors |-> << bw, den >>, result |-> << num, 4 * bw >>]))))

\* no lifecycle check and no exchange with the concentrator
lgw_time_on_air(pkt) ==
    /\ pc = "idle"
    /\ call' = [op |-> "lgw_time_on_air", pkt |-> pkt]
    /\ rx_warn' = NoWarn
    /\ io' = << >>
    /\ \E r \in { time_on_air(pkt) } :
           /\ out' = << r >>
           /\ Return(r.ret)
    /\ UNCHANGED << mcu_tty_path, mcu_fd, lgw_is_started, rx_channel, tx_channel,
                    nb_radio_rx, nb_radio_tx, fds, first_cfg >>

\* empty packets of every valid modulation, and of bandwidths that are none
\* of the four the switch knows
ToaPktSet ==
    { [bandwidth |-> bw, datarate |-> sf, coderate |-> cr, no_header |-> nh, no_crc |-> nc,
       preamble |-> pr, size |-> 0] :
        bw \in {BW_200KHZ, BW_400KHZ, BW_800KHZ, BW_1600KHZ},
        sf \in DR_LORA_SF5..DR_LORA_SF12, cr \in CR_LORA_4_5..CR_LORA_LI_4_7,
        nh \in BOOLEAN, nc \in BOOLEAN, pr \in {8, 65535} }
    \cup
    { [bandwidth |-> bw, datarate |-> sf, coderate |-> cr, no_header |-> nh, no_crc |-> FALSE,
       preamble |-> 8, size |-> 0] :
        bw \in {0, 9, 14}, sf \in {DR_LORA_SF5, DR_LORA_SF12},
        cr \in {CR_LORA_4_5, CR_LORA_LI_4_7}, nh \in BOOLEAN }

\* the time on air of a packet is asked for, then of the same packet with one
\* more byte
NextToa ==
    \/ call.op = "none" /\ \E pkt \in ToaPktSet : lgw_time_on_air(pkt)
    \/ /\ call.op = "lgw_time_on_air"
       /\ call.pkt.size < MaxSize
       /\ lgw_time_on_air([call.pkt EXCEPT !.size = @ + 1])

SpecToa == Init /\ [][NextToa]_vars

\* buf_ack as the calls made so far left it, all zero at first
BufAck == IF out = << >> THEN << >> ELSE out[1]

\* one call read_ack(fd, buf_ack, sizeof buf_ack), as every exchange of
\* loragw_mcu.c makes it after its request was written
ReadAck(errno, stream, script) ==
    /\ pc = "idle"
    /\ call' = [op |-> "read_ack", errno |-> errno, stream |-> stream, script |-> script]
    /\ rx_warn' = NoWarn
    /\ \E r \in { read_ack_bytes(mcu_fd, BufAck, READ_SIZE_MAX, errno, stream, script) } :
        /\ pc' = IF r.hang THEN "blocked" ELSE "idle"
        /\ ret' = IF r.hang THEN << >> ELSE << r.res >>
        /\ io' = r.io
        /\ out' = << r.buf >>
    /\ UNCHANGED << mcu_tty_path, mcu_fd, lgw_is_started, rx_channel, tx_channel,
                    nb_radio_rx, nb_radio_tx, fds, first_cfg >>

\* the calls made so far were undisturbed: errno was clear and every read
\* returned all that was asked
Undisturbed ==
    call.op = "read_ack" => (call.errno = "none" /\ call.script = << >>)

\* replies read one after the other into the same static buffer: any number
\* of undisturbed calls, then one call with any errno and any script
NextAck ==
    /\ Undisturbed
    /\ \E errno \in ErrnoSet, stream \in AckStreams, script \in ReadScripts :
           ReadAck(errno, stream, script)

SpecAck == Init /\ [][NextAck]_vars

NextCmd ==
    \/ \E conf \in BoardConfSet : lgw_board_setconf(conf)
    \/ \E conf \in {ConfZ, ConfA} : lgw_channel_rx_setconf(1, conf, FALSE)
    \/ \E env \in {Board(nb) : nb \in {0, 1, 3}} : lgw_start(env)
    \/ \E env \in {Good(<< >>, << >>, << >>, << >>)} : lgw_stop(env)
    \/ \E pkt \in TxPktSet \cup {TxPktBadCr}, env \in SendEnvs(FaultKinds) : lgw_send(pkt, env)
    \/ \E select \in {TX_STATUS, RX_STATUS, RX_STATUS + 1},
          env \in TxStatusEnvs({"wfail", "rfail", "badtype"}) : lgw_status(select, env)
    \/ \E env \in AbortEnvs({"wfail", "badtype", "nack"}) : lgw_abort_tx(env)
    \/ \E env \in PingEnvs({"rfail", "badtype"}) : lgw_get_eui(env)

SpecCmd == Init /\ [][NextCmd]_vars

\* tx_complete of the polling loop of mcu_prepare_tx
tx_complete(tx_status) ==
    tx_status \in {TX_MSG_STATUS.IDLE, TX_MSG_STATUS.ERROR_PARAM,
                   TX_MSG_STATUS.ERROR_FAIL_TO_SEND, TX_MSG_STATUS.ERROR_TX_TIMEOUT}

\* the do-while loop of mcu_prepare_tx: polls are the frames that answer the
\* successive get-TX-status requests; when none is left the loop is still
\* running and the call has not returned
RECURSIVE tx_poll(_, _, _)
tx_poll(c, polls, i) ==
    IF polls = << >> THEN [res |-> -1, hang |-> TRUE, n |-> i, io |-> << >>]
    ELSE Let(Exchange(c, ORDER_ID.REQ_GET_TX_STATUS, 0, << >>, i, Head(polls)), LAMBDA x :
         Let(IF x.res = 0 THEN decode_ack_status(x.buf, ORDER_ID.ACK_GET_TX_STATUS)
             ELSE [res |-> -1, status |-> 0], LAMBDA d :
             IF d.res # 0 \/ x.hang
             THEN [res |-> -1, hang |-> x.hang, n |-> i + 1, io |-> x.io]
             ELSE IF tx_complete(d.status)
             THEN [res |-> 0, hang |-> FALSE, n |-> i + 1, io |-> x.io]
             ELSE Let(tx_poll(c, Tail(polls), i + 1), LAMBDA rest :
                      [rest EXCEPT !.io = x.io \o rest.io])))

\* mcu_prepare_tx(fd, pkt_data, true), called on the descriptor of the HAL
mcu_prepare_tx_blocking(pkt, env, polls) ==
    /\ pc = "idle"
    /\ call' = [op |-> "mcu_prepare_tx", pkt |-> pkt, blocking |-> TRUE]
    /\ rx_warn' = NoWarn
    /\ out' = << >>
    /\ \E c \in { [fd |-> mcu_fd, open |-> fds, env |-> env] } :
       \E p \in { mcu_prepare_tx(c, nb_radio_rx, pkt, 0) } :
       \E r \in { IF p.res = 0 /\ ~p.hang THEN tx_poll(c, polls, p.n) ELSE Skip(p.n) } :
           /\ io' = p.io \o r.io
           /\ IF p.hang \/ r.hang THEN Block
              ELSE Return(IF p.res = 0 THEN r.res ELSE -1)
    /\ UNCHANGED << mcu_tty_path, mcu_fd, lgw_is_started, rx_channel, tx_channel,
                    nb_radio_rx, nb_radio_tx, fds, first_cfg >>

\* the replies to at most MaxPoll successive get-TX-status requests
PollSet ==
    UNION { [1..n -> { FwAck1(ORDER_ID.ACK_GET_TX_STATUS, st) : st \in TxStatusSet }] :
              n \in 1..MaxPoll }

\* prepare-TX in blocking mode on a started and on a stopped concentrator,
\* one blocking call between two calls of the HAL
NextTx ==
    \/ \E conf \in BoardConfSet : lgw_board_setconf(conf)
    \/ \E env \in {Board(nb) : nb \in {0, 3}} : lgw_start(env)
    \/ \E env \in {Good(<< >>, << >>, << >>, << >>)} : lgw_stop(env)
    \/ /\ call.op # "mcu_prepare_tx"
       /\ \E pkt \in TxPktSet, polls \in PollSet,
             env \in { Good(<< >>, << >>, << >>, << >>) }
                     \cup { Faulty({i}, k, << >>, << >>, << >>, << >>) :
                                i \in 0..2, k \in {"wfail", "rfail", "badtype"} } :
              mcu_prepare_tx_blocking(pkt, env, polls)

SpecTx == Init /\ [][NextTx]_vars

\* the unique id: every combination of the words of the id
NextEui ==
    \/ \E conf \in BoardConfSet : lgw_board_setconf(conf)
    \/ \E env \in {Board(3)} : lgw_start(env)
    \/ \E env \in {Good(<< >>, << >>, << >>, << >>)} : lgw_stop(env)
    \/ \E env \in EuiEnvs : lgw_get_eui(env)

SpecEui == Init /\ [][NextEui]_vars

\* mcu_ping, mcu_get_status or mcu_receive called on the handle of the HAL, the
\* way lgw_start, lgw_get_eui, lgw_receive and the test programs call them;
\* out is what the call decoded into the caller's structure
mcu_query(fn, max_pkt, env) ==
    /\ pc = "idle"
    /\ call' = [op |-> fn]
    /\ rx_warn' = NoWarn
    /\ \E c \in { [fd |-> mcu_fd, open |-> fds, env |-> env] } :
       \E r \in { CASE fn = "mcu_ping" -> mcu_ping(c, 0)
                    [] fn = "mcu_get_status" -> mcu_get_status(c, nb_radio_rx, 0)
                    [] OTHER -> mcu_receive(c, max_pkt, 0) } :
           /\ io' = r.io
           /\ out' = IF r.hang \/ r.res # 0 THEN << >>
                     ELSE CASE fn = "mcu_ping" -> << r.info >>
                            [] fn = "mcu_get_status" -> << r.status >>
                            [] OTHER -> r.pkts
           /\ nb_radio_rx' = IF fn = "mcu_ping" /\ r.info.res = 0
                             THEN r.info.nb_radio_rx ELSE nb_radio_rx
           /\ nb_radio_tx' = IF fn = "mcu_ping" /\ r.info.res = 0
                             THEN r.info.nb_radio_tx ELSE nb_radio_tx
           /\ IF r.hang THEN Block ELSE Return(r.res)
    /\ UNCHANGED << mcu_tty_path, mcu_fd, lgw_is_started, rx_channel, tx_channel, fds, first_cfg >>

\* the translators of the command payloads: packets that differ from the one
\* of TxPktSet in one field, and replies that carry every value of a byte, of
\* a sign and of a length that matters
NextCodec ==
    \/ \E conf \in BoardConfSet : lgw_board_setconf(conf)
    \/ \E env \in {Board(3)} : lgw_start(env)
    \/ \E env \in {Good(<< >>, << >>, << >>, << >>)} : lgw_stop(env)
    \/ \E b \in TxPktSet :
       \E pkt \in {b}
                  \cup { [b EXCEPT !.tx_mode = v] : v \in {0, 2} }
                  \cup { [b EXCEPT !.count_us = v] : v \in {0, 255, 2147483647} }
                  \cup { [b EXCEPT !.rf_power = v] : v \in {-128, -1, 0, 13, 127} }
                  \cup { [b EXCEPT !.freq_hz = v] : v \in {0, 2147483647} }
                  \cup { [b EXCEPT !.bandwidth = v] : v \in {BW_200KHZ, BW_400KHZ, BW_800KHZ} }
                  \cup { [b EXCEPT !.datarate = v] : v \in {DR_LORA_SF5, DR_LORA_SF12} }
                  \cup { [b EXCEPT !.coderate = v] : v \in CR_LORA_4_5..CR_LORA_LI_4_7 }
                  \cup { [b EXCEPT !.invert_pol = v, !.no_header = w, !.no_crc = x] :
                           v \in BOOLEAN, w \in BOOLEAN, x \in BOOLEAN }
                  \cup { [b EXCEPT !.preamble = v] : v \in {0, 255, 256, 65535} }
                  \cup { [b EXCEPT !.size = n, !.payload = [k \in 1..n |-> (7 * k) % 256]] :
                           n \in {0, 1, 255} } :
           lgw_send(pkt, Good(<< >>, << >>, << >>, << >>))
    \/ \E uid \in { [k \in 1..12 |-> (a * k) % 256] : a \in {0, 1, 85, 255} },
          nb_rx \in {0, 1, LGW_RX_CHANNEL_NB_MAX} :
           mcu_query("mcu_ping", 0,
                     Good(FwAckPingBytes(uid, IF nb_rx = 1 THEN VerDbg ELSE VerOk,
                                         IF nb_rx > 0 THEN 1 ELSE 0, nb_rx),
                          << >>, << >>, << >>))
    \/ \E sys \in {0, 16909060, 2147483647}, temp \in {-32768, -1, 0, 2550, 32767} :
           mcu_query("mcu_get_status", 0,
                     Good(<< >>,
                          FwAckStatus(sys, 2147483647 - sys, sys % 2, sys \div 2, temp,
                                      [k \in 1..(4 * nb_radio_rx) |-> (temp + k) % 256]),
                          << >>, << >>))
    \/ \E max_pkt \in {MaxPkt},
          ev \in EvtLists({ FwEvtMsg(f[1], f[2], f[3], f[4], f[5], [k \in 1..f[6] |-> (3 * k) % 256]) :
                              f \in { << 0, 0, 0, 0, 0, 0 >>,
                                      << 2, 2147483647, -2147483647 - 1, -128, -128, 255 >>,
                                      << 1, 16909060, -1, 127, 127, 1 >>,
                                      << 2, 255, 2147483647, -1, -1, 3 >> } }, 1)
                \cup {EvtList} :
           mcu_query("mcu_receive", max_pkt,
                     Good(<< >>, << >>, FwAckGetRxMsg(Len(ev), 0, 0, 0), ev))

SpecCodec == Init /\ [][NextCodec]_vars

(* ------------------------------------------------------------------------ *)
(* Properties                                                                *)

Mutators == { "lgw_board_setconf", "lgw_channel_rx_setconf", "lgw_channel_tx_setconf" }

NeedStarted == { "lgw_receive", "lgw_send", "lgw_get_temperature", "lgw_get_trigcnt",
                 "lgw_get_instcnt" }

\* C1: a configuration mutator called while the lifecycle is Started returns
\* an error, leaves the stored path, every RX channel entry and the TX flag as
\* they were, and performs no transport I/O.
C1_MutatorRejectedWhileStarted ==
    [][(lgw_is_started /\ call'.op \in Mutators)
        => (pc' = "idle" /\ ret' = << -1 >> /\ Conf' = Conf /\ io' = << >> /\ fds' = fds
            /\ lgw_is_started')]_vars

\* a channel mutator was rejected while Started with a configuration that
\* differs from the stored one
C1_Witness ==
    /\ lgw_is_started
    /\ call.op = "lgw_channel_rx_setconf"
    /\ call.channel < LGW_RX_CHANNEL_NB_MAX
    /\ call.conf # rx_channel[call.channel]
    /\ ret = << -1 >>

\* C2: lgw_start called while Started, and lgw_receive, lgw_send,
\* lgw_get_temperature, lgw_get_trigcnt, lgw_get_instcnt called while not
\* Started, return an error without any transport operation and without
\* changing the lifecycle or the stored configuration.
C2_PreconditionViolatedNoIo ==
    [][((lgw_is_started /\ call'.op = "lgw_start")
        \/ (~lgw_is_started /\ call'.op \in NeedStarted))
        => (pc' = "idle" /\ ret' = << -1 >> /\ io' = << >> /\ fds' = fds /\ out' = << >>
            /\ lgw_is_started' = lgw_is_started /\ Conf' = Conf)]_vars

\* lgw_start was rejected while Started
C2_Witness ==
    lgw_is_started /\ call.op = "lgw_start" /\ ret = << -1 >> /\ io = << >>

\* the requests a call wrote to the transport, in order
Writes(log) == SelectSeq(log, LAMBDA e : e.t = "write")

\* lgw_start ran to its end and returned success
StartSucceeded == call.op = "lgw_start" /\ pc = "idle" /\ ret = << 0 >>

\* the config-RX payload of a channel: index, frequency (4 bytes, big-endian),
\* preamble length (2 bytes), spreading factor, bandwidth, a zero byte
ConfigRxPayload(channel, conf) ==
    << channel,
       (conf.freq_hz \div 16777216) % 256, (conf.freq_hz \div 65536) % 256,
       (conf.freq_hz \div 256) % 256, conf.freq_hz % 256,
       0, STD_LORA_PREAMBLE, conf.datarate, conf.bandwidth, 0 >>

\* C3: a successful lgw_start wrote ping, reset of the RX radios, reset of the
\* TX radio, one get-status, then only config-RX requests, and the lifecycle
\* is Started.
C3_StartRequestOrder ==
    StartSucceeded =>
        LET w == Writes(io)
        IN  /\ Len(w) >= 4
            /\ w[1].cmd = ORDER_ID.REQ_PING
            /\ w[2].cmd = ORDER_ID.REQ_RESET /\ w[2].pl = << RESET_TYPE.RX_ALL >>
            /\ w[3].cmd = ORDER_ID.REQ_RESET /\ w[3].pl = << RESET_TYPE.TX >>
            /\ w[4].cmd = ORDER_ID.REQ_GET_STATUS
            /\ \A k \in 5..Len(w) : w[k].cmd = ORDER_ID.REQ_CONFIG_RX
            /\ lgw_is_started

\* C4: after a successful lgw_start, whatever RX radio count the ping
\* reported, exactly one config-RX request was written for each enabled
\* channel 0..2, carrying the channel's stored frequency, spreading factor and
\* bandwidth, and none for a disabled channel.
C4_OneConfigRxPerEnabledChannel ==
    StartSucceeded =>
        LET reqs == ConfigRxWritten(io)
        IN  /\ \A ch \in 0..(LGW_RX_CHANNEL_NB_MAX - 1) :
                   Cardinality({ k \in 1..Len(reqs) : reqs[k][1] = ch })
                       = IF rx_channel[ch].enable THEN 1 ELSE 0
            /\ \A k \in 1..Len(reqs) :
                   /\ reqs[k][1] \in 0..(LGW_RX_CHANNEL_NB_MAX - 1)
                   /\ reqs[k] = ConfigRxPayload(reqs[k][1], rx_channel[reqs[k][1]])

\* C5: with channel 1 disabled and another channel enabled, lgw_start returns
\* an error and the lifecycle is not Started, whatever RX radio count the
\* ping reported.
C5_Channel1Required ==
    (/\ call.op = "lgw_start"
     /\ pc = "idle"
     /\ ~rx_channel[1].enable
     /\ rx_channel[0].enable \/ rx_channel[2].enable)
    => (ret = << -1 >> /\ ~lgw_is_started)

\* channel indices of the config-RX requests a call wrote, in order
ConfigRxIndices(log) == [k \in 1..Len(ConfigRxWritten(log)) |-> ConfigRxWritten(log)[k][1]]

\* position of the first occurrence of v in s, Len(s) + 1 when there is none
FirstAt(s, v) ==
    IF \E k \in 1..Len(s) : s[k] = v
    THEN CHOOSE k \in 1..Len(s) : s[k] = v /\ \A j \in 1..(k - 1) : s[j] # v
    ELSE Len(s) + 1

\* C6: when an lgw_start run writes config-RX requests for several channels,
\* the request of channel 1 comes before the request of every other channel,
\* and the request of channel 2 before the one of channel 0.
C6_Channel1First ==
    LET idx == ConfigRxIndices(io)
    IN  (call.op = "lgw_start" /\ Cardinality({ idx[k] : k \in 1..Len(idx) }) >= 2)
        => /\ idx[1] = 1
           /\ FirstAt(idx, 1) < FirstAt(idx, 2)
           /\ FirstAt(idx, 1) < FirstAt(idx, 0)
           /\ (FirstAt(idx, 0) <= Len(idx) /\ FirstAt(idx, 2) <= Len(idx))
                  => FirstAt(idx, 2) < FirstAt(idx, 0)

\* an lgw_start run wrote the requests of the three channels
C6_Witness ==
    /\ StartSucceeded
    /\ Len(ConfigRxIndices(io)) = LGW_RX_CHANNEL_NB_MAX
    /\ { ConfigRxIndices(io)[k] : k \in 1..Len(ConfigRxIndices(io)) }
           = 0..(LGW_RX_CHANNEL_NB_MAX - 1)

\* the version of a decoded ping reply, release letter dropped, is the
\* expected string
VersionMatches(info) ==
    SubSeq(info.version, 2, 1 + Len(mcu_version_string)) = mcu_version_string

\* C7: when the version carried by the ping reply does not match the expected
\* string, lgw_start returns an error, the lifecycle stays not-Started and the
\* ping is the only request written.
C7_VersionMismatch ==
    (call.op = "lgw_start" /\ out # << >> /\ ~VersionMatches(out[1]))
    => /\ pc = "idle"
       /\ ret = << -1 >>
       /\ ~lgw_is_started
       /\ Len(Writes(io)) = 1
       /\ Writes(io)[1].cmd = ORDER_ID.REQ_PING

\* lgw_start decoded a ping reply of another firmware version
C7_Witness ==
    /\ call.op = "lgw_start"
    /\ out # << >>
    /\ ~VersionMatches(out[1])
    /\ ret = << -1 >>

\* a read stored a header whose declared payload fits the buffer and did not
\* arrive in full
PayloadMissing(e) ==
    /\ e.t = "read"
    /\ Len(e.pl) >= HEADER_CMD_SIZE
    /\ HEADER_CMD_SIZE + e.pl[2] * 256 + e.pl[3] <= READ_SIZE_MAX
    /\ Len(e.pl) < HEADER_CMD_SIZE + e.pl[2] * 256 + e.pl[3]

\* a transport operation of the log failed
SomeFailure(log) == \E k \in 1..Len(log) : log[k].t \in {"write", "read"} /\ log[k].n = -1

C9_StopStartCycles ==
    [][/\ (call'.op = "lgw_stop") => (Conf' = Conf)
       /\ (call.op = "lgw_stop" /\ pc = "idle" /\ call'.op = "lgw_start")
              => (io' # << >> /\ io'[1].t = "open")
       /\ (call'.op = "lgw_start" /\ pc' = "idle" /\ ret' = << 0 >>
           /\ first_cfg.starts > 0 /\ first_cfg.nb = nb_radio_rx')
              => (ConfigRxWritten(io') = first_cfg.reqs /\ lgw_is_started')
       /\ (~lgw_is_started /\ call'.op \in Mutators) => (ret' = << 0 >>)]_vars

\* a second lgw_start succeeded on a configuration with an enabled channel
C9_Witness ==
    /\ StartSucceeded
    /\ first_cfg.starts >= 2
    /\ first_cfg.reqs # << >>
    /\ ConfigRxWritten(io) = first_cfg.reqs

\* the message-received events a call read from the transport, in order
EventsRead(log) ==
    LET evs == SelectSeq(log, LAMBDA e : /\ e.t = "read"
                                         /\ Len(e.pl) >= HEADER_CMD_SIZE
                                         /\ e.pl[4] = ORDER_ID.EVT_MSG_RECEIVE)
    IN  [k \in 1..Len(evs) |-> evs[k].pl]

\* the byte b read as a signed 8-bit value
Signed8(b) == IF b >= 128 THEN b - 256 ELSE b

\* packet p carries the fields of the event frame f: radio index, timestamp
\* (4 bytes, big-endian), signed SNR, payload length and payload
AsEvent(p, f) ==
    /\ p.channel = f[5]
    /\ p.count_us = ((f[6] * 256 + f[7]) * 256 + f[8]) * 256 + f[9]
    /\ p.snr = Signed8(f[14])
    /\ p.size = f[16]
    /\ p.payload = SubSeq(f, 17, 16 + f[16])

\* packet p, of a radio index of the RX table, carries the stored frequency,
\* bandwidth and spreading factor of its channel, and the raw RSSI of the
\* event frame f plus the stored offset
AsChannel(p, f, conf) ==
    /\ p.freq_hz = conf.freq_hz
    /\ p.bandwidth = conf.bandwidth
    /\ p.datarate = conf.datarate
    /\ p.rssi = Signed8(f[15]) + conf.rssi_offset

\* C10: every packet returned by lgw_receive carries the channel index,
\* timestamp, SNR, size and payload of its event and, for a radio index of the
\* RX table, the frequency, bandwidth and spreading factor stored for that
\* channel and the raw RSSI plus the channel's RSSI offset; the stored entry
\* of a channel is the configuration of the last accepted
\* lgw_channel_rx_setconf of that channel.
C10_ReceiveEnrichment ==
    /\ [](call.op = "lgw_receive" /\ pc = "idle" /\ ret # << -1 >>
          => /\ Len(out) = ret[1]
             /\ Len(EventsRead(io)) >= ret[1]
             /\ \A k \in 1..ret[1] :
                    /\ AsEvent(out[k], EventsRead(io)[k])
                    /\ out[k].channel < LGW_RX_CHANNEL_NB_MAX
                           => AsChannel(out[k], EventsRead(io)[k], rx_channel[out[k].channel]))
    /\ [][\A ch \in 0..(LGW_RX_CHANNEL_NB_MAX - 1) :
              rx_channel'[ch] # rx_channel[ch]
                  => /\ call'.op = "lgw_channel_rx_setconf"
                     /\ call'.channel = ch
                     /\ rx_channel'[ch] = call'.conf]_vars

\* lgw_receive returned two packets of different channels, the first one of a
\* channel with a non-zero RSSI offset
C10_Witness ==
    /\ call.op = "lgw_receive"
    /\ ret = << 2 >>
    /\ out[1].channel < LGW_RX_CHANNEL_NB_MAX
    /\ out[2].channel < LGW_RX_CHANNEL_NB_MAX
    /\ out[1].channel # out[2].channel
    /\ rx_channel[out[1].channel].rssi_offset # 0
    /\ rx_channel[out[1].channel].freq_hz # rx_channel[out[2].channel].freq_hz

\* the read operations of a call, in order
Reads(log) == SelectSeq(log, LAMBDA e : e.t = "read")

\* the command type of the frame a read stored
TypeRead(e) == IF Len(e.pl) >= HEADER_CMD_SIZE THEN e.pl[4] ELSE -1

\* lgw_receive passed the lifecycle check and returned
ReceiveReturned == call.op = "lgw_receive" /\ pc = "idle" /\ io # << >>

\* every transport operation of the call succeeded, the first frame read is
\* a get-RX-message acknowledgment and the last one a status acknowledgment
ReceiveAllFine(log) ==
    /\ \A k \in 1..Len(log) : log[k].n >= 0
    /\ Len(Reads(log)) >= 2
    /\ TypeRead(Reads(log)[1]) = ORDER_ID.ACK_GET_RX_MSG
    /\ TypeRead(Reads(log)[Len(Reads(log))]) = ORDER_ID.ACK_GET_STATUS

\* the smaller of two numbers
Min(a, b) == IF a < b THEN a ELSE b

\* C11: when the get-RX-message acknowledgment announces n messages and
\* every read succeeds, lgw_receive(max_pkt) reads n events from the
\* transport, stores the first min(n, max_pkt) in arrival order, returns
\* min(n, max_pkt) (0 for max_pkt = 0, all n events read and dropped), and
\* the lost-message count of the acknowledgment is reported when non-zero.
C11_ReceiveDrains ==
    (ReceiveReturned /\ ReceiveAllFine(io)) =>
        LET r == Reads(io)
            n == r[1].pl[HEADER_CMD_SIZE + ACK_GET_RX_MSG.NB_MSG + 1]
            lost == r[1].pl[HEADER_CMD_SIZE + ACK_GET_RX_MSG.LOST_MESSAGE + 1]
            m == Min(n, call.max_pkt)
        IN  /\ Len(r) = n + 2
            /\ ret = << m >>
            /\ Len(out) = m
            /\ \A k \in 1..m : AsEvent(out[k], r[k + 1].pl)
            /\ rx_warn = [lost |-> lost, dropped |-> n - m]

\* two events were announced with lost messages, lgw_receive(1) stored the
\* first one and dropped the second
C11_Witness ==
    /\ ReceiveReturned
    /\ call.max_pkt = 1
    /\ ret = << 1 >>
    /\ Len(Reads(io)) = 4
    /\ rx_warn.lost > 0
    /\ rx_warn.dropped = 1

\* a write or a read of the call failed, or a frame the call decoded does not
\* have the expected type: the get-RX-message acknowledgment, one of the
\* first max_pkt events, the status acknowledgment
ReceiveFailure(log, max_pkt) ==
    LET r == Reads(log)
        n == IF r # << >> /\ TypeRead(r[1]) = ORDER_ID.ACK_GET_RX_MSG
             THEN r[1].pl[HEADER_CMD_SIZE + ACK_GET_RX_MSG.NB_MSG + 1] ELSE 0
    IN  \/ \E k \in 1..Len(log) : log[k].n < 0
        \/ r # << >> /\ TypeRead(r[1]) # ORDER_ID.ACK_GET_RX_MSG
        \/ \E k \in 1..Min(n, max_pkt) :
               k + 1 <= Len(r) /\ TypeRead(r[k + 1]) # ORDER_ID.EVT_MSG_RECEIVE
        \/ Len(r) >= n + 2 /\ TypeRead(r[n + 2]) # ORDER_ID.ACK_GET_STATUS

\* C12: a failed write, a failed read or a failed acknowledgment decode
\* during lgw_receive makes the call return -1, never the number of packets
\* fetched before the failure.
C12_ReceiveNoPartialResult ==
    (ReceiveReturned /\ ReceiveFailure(io, call.max_pkt)) => ret = << -1 >>

\* lgw_receive failed after it had stored a packet
C12_Witness ==
    /\ ReceiveReturned
    /\ ReceiveFailure(io, call.max_pkt)
    /\ Len(out) >= 1
    /\ ret = << -1 >>

\* the log shows a prepare-TX acknowledgment with the accepted status
SendAccepted(log) ==
    \E k \in 1..Len(log) :
        /\ log[k].t = "read"
        /\ log[k].n > HEADER_CMD_SIZE
        /\ TypeRead(log[k]) = ORDER_ID.ACK_PREPARE_TX
        /\ log[k].pl[HEADER_CMD_SIZE + 1] = PREPARE_TX_STATUS__OK

\* the call wrote one request, the prepare-TX, and returned success exactly
\* when the reply is an accepted prepare-TX acknowledgment
SendOneRequest ==
    /\ Len(Writes(io)) = 1
    /\ Writes(io)[1].cmd = ORDER_ID.REQ_PREPARE_TX
    /\ pc = "idle" => ret = << IF SendAccepted(io) THEN 0 ELSE -1 >>

\* C13 as stated: while Started, every lgw_send writes exactly one request,
\* the prepare-TX, and succeeds exactly when the reply is a prepare-TX
\* acknowledgment with the accepted status.
C13_SendOneRequest ==
    (call.op = "lgw_send" /\ lgw_is_started) => SendOneRequest

\* C13 amended: this holds when at least one RX radio was discovered and the
\* coding rate of the packet is one of the seven the encoder knows; otherwise
\* lgw_send returns an error without writing a request.
C13_SendOneRequestWhenEncodable ==
    (call.op = "lgw_send" /\ lgw_is_started) =>
        IF nb_radio_rx >= 1 /\ call.pkt.coderate \in CR_LORA_4_5..CR_LORA_LI_4_7
        THEN SendOneRequest
        ELSE io = << >> /\ pc = "idle" /\ ret = << -1 >>

\* a prepare-TX acknowledgment of the accepted status was read and lgw_send succeeded
C13_Witness ==
    /\ call.op = "lgw_send"
    /\ lgw_is_started
    /\ SendAccepted(io)
    /\ ret = << 0 >>

\* the ping acknowledgments a call read completely
PingsRead(log) ==
    SelectSeq(log, LAMBDA e : e.t = "read" /\ e.n >= 0 /\ TypeRead(e) = ORDER_ID.ACK_PING)

\* C14: the radio counts are 0 before any ping and change only to the counts
\* of a ping reply that was read and has the ping type; lgw_start writes no
\* config-RX request for a channel index at or above the RX count and fails
\* when it visits such an enabled channel; lgw_send with an RX count of 0
\* returns -1 without writing.
C14_RadioCountGating ==
    /\ [](call.op = "none" => (nb_radio_rx = 0 /\ nb_radio_tx = 0))
    /\ [][IF PingsRead(io') # << >>
          THEN /\ nb_radio_rx' = PingsRead(io')[1].pl[HEADER_CMD_SIZE + ACK_PING.NB_RADIO_RX + 1]
               /\ nb_radio_tx' = PingsRead(io')[1].pl[HEADER_CMD_SIZE + ACK_PING.NB_RADIO_TX + 1]
          ELSE /\ nb_radio_rx' = nb_radio_rx
               /\ nb_radio_tx' = nb_radio_tx]_vars
    /\ [](call.op = "lgw_start" =>
             \A k \in 1..Len(ConfigRxIndices(io)) : ConfigRxIndices(io)[k] < nb_radio_rx)
    /\ [](StartSucceeded =>
             \A i \in 0..(nb_radio_rx - 1) :
                 rx_channel[(i + 1) % LGW_RX_CHANNEL_NB_MAX].enable
                     => (i + 1) % LGW_RX_CHANNEL_NB_MAX < nb_radio_rx)
    /\ []((call.op = "lgw_send" /\ lgw_is_started /\ nb_radio_rx = 0)
             => (io = << >> /\ ret = << -1 >>))

\* Started with no RX radio discovered, lgw_send was rejected without a write
C14_Witness ==
    /\ call.op = "lgw_send"
    /\ lgw_is_started
    /\ nb_radio_rx = 0
    /\ io = << >>
    /\ ret = << -1 >>

\* the status lgw_status reports for the status byte b of the firmware
ReportedTxStatus(b) ==
    CASE b = TX_MSG_STATUS.IDLE -> TX_FREE
      [] b = TX_MSG_STATUS.DONE -> TX_FREE
      [] b = TX_MSG_STATUS.LOADED -> TX_SCHEDULED
      [] b = TX_MSG_STATUS.ON_AIR -> TX_EMITTING
      [] OTHER -> TX_STATUS_UNKNOWN

\* C15: lgw_status(TX_STATUS) while Started writes one get-TX-status request
\* and, when it succeeds, reports Free for idle and done, Scheduled for
\* loaded, Emitting for on-air, Unknown otherwise; while not Started it
\* reports TX off without I/O; lgw_status(RX_STATUS) reports On when Started
\* and Off otherwise, without I/O; any other selector returns -1.
C15_StatusMapping ==
    (call.op = "lgw_status") =>
        IF call.select = TX_STATUS /\ lgw_is_started
        THEN /\ Len(Writes(io)) = 1
             /\ Writes(io)[1].cmd = ORDER_ID.REQ_GET_TX_STATUS
             /\ Len(Reads(io)) <= 1
             /\ (pc = "idle" /\ ret = << 0 >>) =>
                    out = << ReportedTxStatus(Reads(io)[1].pl[HEADER_CMD_SIZE + 1]) >>
             /\ (pc = "idle" /\ Reads(io) # << >> /\ Reads(io)[1].n > HEADER_CMD_SIZE
                 /\ TypeRead(Reads(io)[1]) = ORDER_ID.ACK_GET_TX_STATUS) => ret = << 0 >>
        ELSE IF call.select = TX_STATUS
        THEN io = << >> /\ ret = << 0 >> /\ out = << TX_OFF >>
        ELSE IF call.select = RX_STATUS
        THEN io = << >> /\ ret = << 0 >> /\ out = << IF lgw_is_started THEN RX_ON ELSE RX_OFF >>
        ELSE io = << >> /\ ret = << -1 >>

\* a finished transmission was reported as free
C15_Witness ==
    /\ call.op = "lgw_status"
    /\ call.select = TX_STATUS
    /\ lgw_is_started
    /\ ret = << 0 >>
    /\ Reads(io)[1].pl[HEADER_CMD_SIZE + 1] = TX_MSG_STATUS.DONE
    /\ out = << TX_FREE >>

\* C16: lgw_abort_tx and lgw_get_eui, called in any lifecycle state against
\* an environment without fault, exchange with a descriptor mcu_open returned
\* and return success.
C16_AbortAndEuiInEveryState ==
    (call.op \in {"lgw_abort_tx", "lgw_get_eui"} /\ call.fault = "none") =>
        /\ pc = "idle"
        /\ ret = << 0 >>
        /\ io # << >>
        /\ \A k \in 1..Len(io) : io[k].fd # 0

\* byte k (1 = most significant) of h + l before truncation to a byte, with
\* the carry of the less significant bytes, h and l given as 4 bytes each
RECURSIVE ByteSum(_, _, _)
ByteSum(h, l, k) ==
    h[k] + l[k] + (IF k = 4 THEN 0 ELSE ByteSum(h, l, k + 1) \div 256)

\* the 8 bytes, most significant first, of the 64-bit value whose high word
\* is (h + l) mod 2^32 and whose low word is m
FoldedId(h, m, l) ==
    [k \in 1..4 |-> ByteSum(h, l, k) % 256] \o m

\* C17: when lgw_get_eui succeeds, the value it yields has (H + L) mod 2^32
\* as its high 32 bits and M as its low 32 bits, H, M and L being the
\* unique-id words of the ping reply it read; the value is a function of the
\* three words alone.
C17_EuiFolding ==
    (call.op = "lgw_get_eui" /\ ret = << 0 >>) =>
        /\ PingsRead(io) # << >>
        /\ out = << FoldedId(
                      Slice(PingsRead(io)[1].pl, HEADER_CMD_SIZE + ACK_PING.UNIQUE_ID_0, 4),
                      Slice(PingsRead(io)[1].pl, HEADER_CMD_SIZE + ACK_PING.UNIQUE_ID_4, 4),
                      Slice(PingsRead(io)[1].pl, HEADER_CMD_SIZE + ACK_PING.UNIQUE_ID_8, 4)) >>

\* H = 0xFFFFFFFF and L = 0x80000001: the sum wraps to 0x80000000
C17_Witness ==
    /\ call.op = "lgw_get_eui"
    /\ ret = << 0 >>
    /\ Slice(PingsRead(io)[1].pl, HEADER_CMD_SIZE + ACK_PING.UNIQUE_ID_0, 4) = << 255, 255, 255, 255 >>
    /\ Slice(PingsRead(io)[1].pl, HEADER_CMD_SIZE + ACK_PING.UNIQUE_ID_8, 4) = << 128, 0, 0, 1 >>
    /\ out = << << 128, 0, 0, 0, 34, 34, 34, 34 >> >>

\* the payload size the first frame of a stream declares
Declared(stream) == stream[2] * 256 + stream[3]

\* the number of bytes the reads of a log took from the transport
RECURSIVE Consumed(_)
Consumed(log) ==
    IF log = << >> THEN 0
    ELSE (IF Head(log).n > 0 THEN Head(log).n ELSE 0) + Consumed(Tail(log))

\* the stream begins with a whole frame that fits the receive buffer
WholeFrame(stream) ==
    /\ HEADER_CMD_SIZE + Declared(stream) <= READ_SIZE_MAX
    /\ Len(stream) >= HEADER_CMD_SIZE + Declared(stream)

\* read_ack returned the first frame of the stream: its length as result, its
\* bytes at the beginning of the buffer
FrameReturned ==
    /\ pc = "idle"
    /\ ret = << HEADER_CMD_SIZE + Declared(call.stream) >>
    /\ Len(out[1]) >= HEADER_CMD_SIZE + Declared(call.stream)
    /\ SubSeq(out[1], 1, HEADER_CMD_SIZE + Declared(call.stream))
         = SubSeq(call.stream, 1, HEADER_CMD_SIZE + Declared(call.stream))

\* C18: when the header of the reply declares a payload with which the frame
\* exceeds the 500-byte buffer, read_ack returns -1 after the read of the
\* header alone; a reply read_ack accepts declares at most 496 payload bytes;
\* no byte is stored beyond the buffer.
C18_OversizeRejected ==
    (call.op = "read_ack") =>
        /\ (HEADER_CMD_SIZE + Declared(call.stream) > READ_SIZE_MAX) =>
               (pc = "idle" /\ ret = << -1 >> /\ Len(io) <= 1)
        /\ (pc = "idle" /\ ret[1] >= 0) =>
               HEADER_CMD_SIZE + Declared(call.stream) <= READ_SIZE_MAX
        /\ Len(out[1]) <= READ_SIZE_MAX

\* C19: a call during which the only disturbances are interrupted reads and
\* reads of 0 bytes, made when a whole frame is on its way, returns that
\* frame.
C19_InterruptedReadsRetried ==
    (/\ call.op = "read_ack"
     /\ WholeFrame(call.stream)
     /\ \A k \in 1..Len(call.script) :
            \/ call.script[k].err = "EINTR"
            \/ call.script[k].err = "none" /\ call.script[k].n = 0)
        => FrameReturned

\* C20: whatever the sizes of the pieces in which the transport hands the
\* reply over, read_ack takes no more bytes than the frame has, and when it
\* succeeds it has taken exactly the frame and returns its length.
C20_SplitReads ==
    (/\ call.op = "read_ack"
     /\ call.errno = "none"
     /\ \A k \in 1..Len(call.script) :
            call.script[k].err = "none" /\ call.script[k].n >= 1)
        => /\ Consumed(io) <= HEADER_CMD_SIZE + Declared(call.stream)
           /\ (pc = "idle" /\ ret[1] >= 0) =>
                  (FrameReturned /\ Consumed(io) = HEADER_CMD_SIZE + Declared(call.stream))

\* C21: in every operation that returned, a frame read completely whose
\* command type is not the one expected at that point (the acknowledgment of
\* the request written just before, a message-received event for a read that
\* follows another read) makes the operation return an error; this includes
\* the events lgw_receive reads beyond max_pkt.  lgw_stop is left out: it
\* hides the result of its mcu_reset.
C21_WrongTypeIsError ==
    LET Expected(k) ==
            IF io[k - 1].t # "write" THEN ORDER_ID.EVT_MSG_RECEIVE
            ELSE CASE io[k - 1].cmd = ORDER_ID.REQ_PING -> ORDER_ID.ACK_PING
                   [] io[k - 1].cmd = ORDER_ID.REQ_CONFIG_RX -> ORDER_ID.ACK_CONFIG_RX
                   [] io[k - 1].cmd = ORDER_ID.REQ_PREPARE_TX -> ORDER_ID.ACK_PREPARE_TX
                   [] io[k - 1].cmd = ORDER_ID.REQ_GET_STATUS -> ORDER_ID.ACK_GET_STATUS
                   [] io[k - 1].cmd = ORDER_ID.REQ_GET_RX_MSG -> ORDER_ID.ACK_GET_RX_MSG
                   [] io[k - 1].cmd = ORDER_ID.REQ_GET_TX_STATUS -> ORDER_ID.ACK_GET_TX_STATUS
                   [] OTHER -> ORDER_ID.ACK_RESET
    IN  (/\ call.op \notin {"none", "lgw_stop", "read_ack"}
         /\ pc = "idle"
         /\ \E k \in 2..Len(io) :
                /\ io[k].t = "read"
                /\ io[k].n >= HEADER_CMD_SIZE
                /\ TypeRead(io[k]) # Expected(k))
            => ret = << -1 >>

\* C22: when one of lgw_receive, lgw_send, lgw_status, lgw_get_temperature,
\* lgw_get_trigcnt and lgw_get_instcnt is called while Started and returns an
\* error, the lifecycle is still Started and the stored path, RX table and TX
\* configuration are what they were.
C22_FailureKeepsStarted ==
    [][(/\ lgw_is_started
        /\ call'.op \in {"lgw_receive", "lgw_send", "lgw_status", "lgw_get_temperature",
                         "lgw_get_trigcnt", "lgw_get_instcnt"}
        /\ pc' = "idle"
        /\ ret' = << -1 >>)
           => (lgw_is_started' /\ Conf' = Conf)]_vars

\* lgw_send failed on the transport and the concentrator is still Started
C22_Witness ==
    /\ call.op = "lgw_send"
    /\ ret = << -1 >>
    /\ io # << >>
    /\ \E k \in 1..Len(io) : io[k].n < 0
    /\ lgw_is_started

\* C23: lgw_channel_rx_setconf called with a channel index of 3 or more
\* returns an error and changes neither the stored configuration nor any
\* other state of the library.
C23_InvalidChannelRejected ==
    [][(call'.op = "lgw_channel_rx_setconf" /\ call'.channel >= LGW_RX_CHANNEL_NB_MAX)
           => /\ ret' = << -1 >>
              /\ io' = << >>
              /\ Conf' = Conf
              /\ UNCHANGED << lgw_is_started, mcu_fd, fds, nb_radio_rx, nb_radio_tx >>]_vars

\* C24: lgw_send with a packet of more than 255 bytes returns an error and
\* writes nothing; in every prepare-TX request written the payload-length
\* byte is the number of payload bytes that follow it and the request is no
\* longer than the request buffer
C24_LongPacketRejected ==
    (pc = "idle" /\ call.op = "lgw_send")
        => /\ call.pkt.size > 255 => (ret = << -1 >> /\ io = << >>)
           /\ \A k \in 1..Len(io) :
                  (io[k].t = "write" /\ io[k].cmd = ORDER_ID.REQ_PREPARE_TX)
                      => /\ Len(io[k].pl) <= WRITE_SIZE_MAX
                         /\ Len(io[k].pl) >= REQ_PREPARE_TX__PAYLOAD
                         /\ io[k].pl[REQ_PREPARE_TX__PAYLOAD] = Len(io[k].pl) - REQ_PREPARE_TX__PAYLOAD

\* C25: whatever the CRC-ok and CRC-error counters of the get-status reply,
\* lgw_receive returns what it returns when all the counters are zero: same
\* return value, same packets, same warning, same stored state (stated on
\* the calls that read the status reply)
C25_CrcCountersIgnored ==
    [][\A env \in (IF lgw_is_started /\ call'.op = "lgw_receive"
                    THEN ReceiveCrcEnvs(nb_radio_rx) ELSE {}) :
           (/\ \E k \in 1..Len(io') :
                  /\ io'[k].t = "read"
                  /\ Len(io'[k].pl) = Len(env.status)
                  /\ \A j \in (HEADER_CMD_SIZE + 1)..Len(env.status) : io'[k].pl[j] = env.status[j]
            /\ lgw_receive(MaxPkt, env, ConfZ))
               => LET zero == [env EXCEPT !.status = StatusOf(nb_radio_rx, 2550, 0)]
                      r0   == lgw_receive_run(mcu_fd, fds, nb_radio_rx, rx_channel, MaxPkt, zero, ConfZ)
                  IN  /\ pc' = (IF r0.hang THEN "blocked" ELSE "idle")
                      /\ ret' = (IF r0.hang THEN << >> ELSE << r0.ret >>)
                      /\ out' = r0.pkts
                      /\ rx_warn' = r0.warn
                      /\ Len(io') = Len(r0.io)]_vars

\* lgw_receive has returned two packets after a status reply whose CRC-error
\* counters are 65535
C25_Witness ==
    /\ pc = "idle"
    /\ call.op = "lgw_receive"
    /\ ret = << 2 >>
    /\ Len(out) = 2
    /\ io # << >>
    /\ io[Len(io)].t = "read"
    /\ cmd_get_type(io[Len(io)].pl) = ORDER_ID.ACK_GET_STATUS
    /\ At(io[Len(io)].pl, HEADER_CMD_SIZE + ACK_GET_STATUS.RX_STATUS + 2) = 255
    /\ At(io[Len(io)].pl, HEADER_CMD_SIZE + ACK_GET_STATUS.RX_STATUS + 3) = 255

\* C26: mcu_reset called with a reset type writes reset requests of that type
\* only and returns success exactly when that reset was acknowledged with
\* status 0; stated on lgw_abort_tx, which calls mcu_reset with the TX type
C26_ResetOfRequestedTypeOnly ==
    (pc = "idle" /\ call.op = "lgw_abort_tx")
        => /\ \A k \in 1..Len(io) :
                  (io[k].t = "write" /\ io[k].cmd = ORDER_ID.REQ_RESET)
                      => io[k].pl = << RESET_TYPE.TX >>
           /\ ret = << 0 >>
                  <=> \E k \in 1..(Len(io) - 1) :
                          /\ io[k].t = "write" /\ io[k].n = 0
                          /\ io[k].cmd = ORDER_ID.REQ_RESET
                          /\ io[k].pl = << RESET_TYPE.TX >>
                          /\ io[k + 1].t = "read" /\ io[k + 1].n >= HEADER_CMD_SIZE + 1
                          /\ cmd_get_type(io[k + 1].pl) = ORDER_ID.ACK_RESET
                          /\ At(io[k + 1].pl, HEADER_CMD_SIZE + ACK_RESET__STATUS) = 0

\* C27: with the bandwidth, the spreading factor (5 to 12), the coding rate
\* (1 to 7), the header mode, the CRC flag and the preamble length fixed,
\* neither the data-symbol count nor the duration returned by lgw_time_on_air
\* decreases when the payload size grows by one, from 0 to 255
C27_TimeOnAirMonotone ==
    [][(/\ call.op = "lgw_time_on_air" /\ call'.op = "lgw_time_on_air"
        /\ ToaBw(call.pkt.bandwidth) # 0
        /\ call'.pkt = [call.pkt EXCEPT !.size = @ + 1])
           => /\ ret'[1] >= ret[1]
              /\ out'[1].symbols_nb_data >= out[1].symbols_nb_data]_vars

\* the time on air of a packet of 255 bytes, long interleaving, has been
\* computed and is above that of the empty packet
C27_Witness ==
    /\ call.op = "lgw_time_on_air"
    /\ call.pkt.size = 255
    /\ call.pkt.coderate = CR_LORA_LI_4_7
    /\ call.pkt.no_header
    /\ ret # << >>
    /\ ret[1] > time_on_air([call.pkt EXCEPT !.size = 0]).ret

\* C28: with a bandwidth that is none of 200, 400, 800 and 1600 kHz,
\* lgw_time_on_air returns 0 and no division by the bandwidth is made
C28_InvalidBandwidthIsZero ==
    (/\ call.op = "lgw_time_on_air"
     /\ call.pkt.bandwidth \notin {BW_200KHZ, BW_400KHZ, BW_800KHZ, BW_1600KHZ})
        => /\ pc = "idle"
           /\ ret = << 0 >>
           /\ out[1].divisors = << >>
           /\ out[1].result = << >>

\* the time on air has been asked for bandwidth 0 and a packet that is not
\* empty
C28_Witness ==
    /\ call.op = "lgw_time_on_air"
    /\ call.pkt.bandwidth = 0
    /\ call.pkt.datarate = DR_LORA_SF12
    /\ call.pkt.size > 0
    /\ ret = << 0 >>

\* C29 as stated: in every operation the frames written and read alternate
\* strictly, starting with a request: each request is followed by the read of
\* exactly one frame before the next request is written
C29_StrictAlternation ==
    LET F == SelectSeq(io, LAMBDA e : (e.t = "write" /\ e.n = 0) \/ e.t = "read")
    IN  call.op \notin {"none", "read_ack"}
            => \A k \in 1..Len(F) :
                   IF k % 2 = 1 THEN F[k].t = "write" ELSE F[k].t = "read"

\* C29: in every operation a request is written only when the read of the
\* acknowledgment of the request before it has returned, with a frame or with
\* an error, so at most one request is in flight; one frame is read per
\* request, except that the acknowledgment of a get-RX-message request is
\* followed by the reads of the events it announces, at most as many as
\* announced; after a failed write or read only lgw_stop writes again
C29_OneRequestInFlight ==
    LET F == SelectSeq(io, LAMBDA e : e.t \in {"write", "read"})
    IN  call.op \notin {"none", "read_ack"}
            => /\ F # << >> => F[1].t = "write"
               /\ (F # << >> /\ F[Len(F)].t = "write") => F[Len(F)].n < 0
               /\ \A k \in 1..(Len(F) - 1) :
                      /\ (F[k].t = "write" /\ F[k].n = 0) => F[k + 1].t = "read"
                      /\ F[k].n < 0 => (call.op = "lgw_stop" /\ F[k + 1].t = "write")
               /\ \A k \in 2..Len(F) :
                      (F[k].t = "read" /\ F[k - 1].t = "read")
                          => /\ call.op = "lgw_receive"
                             /\ F[1].cmd = ORDER_ID.REQ_GET_RX_MSG
                             /\ cmd_get_type(F[2].pl) = ORDER_ID.ACK_GET_RX_MSG
                             /\ k - 2 <= At(F[2].pl, HEADER_CMD_SIZE + ACK_GET_RX_MSG.NB_MSG)
                             /\ \A j \in 2..k : F[j].t = "read"

\* lgw_receive has returned two packets after one get-RX-message request, the
\* reads of its acknowledgment and of two events, and one status exchange
C29_Witness ==
    /\ pc = "idle"
    /\ call.op = "lgw_receive"
    /\ ret = << 2 >>
    /\ Len(io) = 6
    /\ io[1].t = "write" /\ io[2].t = "read" /\ io[3].t = "read" /\ io[4].t = "read"
    /\ io[5].t = "write" /\ io[5].cmd = ORDER_ID.REQ_GET_STATUS
    /\ io[6].t = "read"

\* C30: after an accepted prepare-TX, mcu_prepare_tx in blocking mode
\* returns as soon as a get-TX-status reply reports idle, done,
\* parameter error, send failure or timeout: no request is written after such
\* a reply and the call returns success; it goes on polling only after a
\* reply that reports none of these
C30_BlockingPollsUntilTerminal ==
    LET Terminal == {TX_MSG_STATUS.IDLE, TX_MSG_STATUS.DONE, TX_MSG_STATUS.ERROR_PARAM,
                     TX_MSG_STATUS.ERROR_FAIL_TO_SEND, TX_MSG_STATUS.ERROR_TX_TIMEOUT}
        Reported(k) == /\ k > 2
                       /\ io[k].t = "read"
                       /\ io[k].n = HEADER_CMD_SIZE + 1
                       /\ cmd_get_type(io[k].pl) = ORDER_ID.ACK_GET_TX_STATUS
    IN  (call.op = "mcu_prepare_tx" /\ call.blocking)
            => \A k \in 1..Len(io) :
                   Reported(k)
                       => IF At(io[k].pl, HEADER_CMD_SIZE + ACK_RESET__STATUS) \in Terminal
                          THEN k = Len(io) /\ pc = "idle" /\ ret = << 0 >>
                          ELSE k < Len(io) \/ pc = "blocked"

\* C31: the discovered radio counts live as long as the started session: once
\* lgw_stop has returned, and until an operation reads a ping reply again,
\* both counts are 0
C31_CountsClearedByStop ==
    (pc = "idle" /\ call.op = "lgw_stop") => (nb_radio_rx = 0 /\ nb_radio_tx = 0)

\* C32 as stated: in every branch of lgw_time_on_air that computes payload
\* information bits, they are max(0, 8 * (size + 2 * crc) - header_bits) with
\* header_bits = 4 * SF + 8 * fine_sync - 8 - 20 * explicit_header
C32_PayloadBits ==
    LET p == call.pkt
        header_bits == 4 * p.datarate + 8 * (IF p.datarate <= 6 THEN 1 ELSE 0) - 8
                           - (IF p.no_header THEN 0 ELSE 20)
        bits == 8 * (p.size + 2 * (IF p.no_crc THEN 0 ELSE 1)) - header_bits
    IN  (call.op = "lgw_time_on_air" /\ out[1].tx_infobits_payload # << >>)
            => out[1].tx_infobits_payload = << IF bits > 0 THEN bits ELSE 0 >>

\* C32: the payload information bits are max(0, 8 * (size + 2 * crc) -
\* header_bits) for the coding rates 1 to 4; for the coding rates 5 to 7 with
\* an explicit header, header_bits is first replaced by the smaller of
\* header_bits and 8 * size when it is below 8 * (size + 2 * crc)
C32_PayloadBitsCapped ==
    LET p == call.pkt
        header_bits == 4 * p.datarate + 8 * (IF p.datarate <= 6 THEN 1 ELSE 0) - 8
                           - (IF p.no_header THEN 0 ELSE 20)
        total == p.size + 2 * (IF p.no_crc THEN 0 ELSE 1)
        capped == IF p.coderate >= 5 /\ header_bits < 8 * total /\ 8 * p.size < header_bits
                  THEN 8 * p.size ELSE header_bits
        bits == 8 * total - capped
    IN  (call.op = "lgw_time_on_air" /\ ToaBw(p.bandwidth) # 0)
            => IF p.coderate >= 5 /\ p.no_header
               THEN out[1].tx_infobits_payload = << >>
               ELSE out[1].tx_infobits_payload = << IF bits > 0 THEN bits ELSE 0 >>

\* SF12, coding rate 5, explicit header, CRC, one payload byte: 20 header bits
\* capped to 8, 16 payload information bits
C32_Witness ==
    /\ call.op = "lgw_time_on_air"
    /\ call.pkt.datarate = DR_LORA_SF12
    /\ call.pkt.coderate = 5
    /\ ~call.pkt.no_header /\ ~call.pkt.no_crc
    /\ call.pkt.size = 1
    /\ out[1].tx_infobits_payload = << 16 >>

\* C33: the prepare-TX request written by lgw_send, read back with the layout
\* of the protocol, is the packet of the caller (coding rate 1..7 sent as
\* 0..6), and what mcu_ping, mcu_get_status and mcu_receive decoded, encoded
\* again with the layout of the protocol, is the reply that was read: every
\* big-endian field of the reply is recovered.
C33_CodecRoundTrip ==
    /\ (call.op = "lgw_send" /\ io # << >>) =>
           /\ io[1].t = "write" /\ io[1].cmd = ORDER_ID.REQ_PREPARE_TX
           /\ Len(io[1].pl) = 20 + call.pkt.size
           /\ LET pl == io[1].pl
              IN  call.pkt =
                  [tx_mode    |-> At(pl, 0),
                   count_us   |-> bytes_be_to_uint32_le(pl, 1),
                   rf_power   |-> I8(At(pl, 5)),
                   freq_hz    |-> bytes_be_to_uint32_le(pl, 6),
                   bandwidth  |-> At(pl, 10),
                   datarate   |-> At(pl, 11),
                   invert_pol |-> At(pl, 12) = 1,
                   coderate   |-> At(pl, 13) + 1,
                   no_header  |-> At(pl, 14) = 1,
                   no_crc     |-> At(pl, 15) = 0,
                   preamble   |-> At(pl, 17) * 256 + At(pl, 18),
                   size       |-> At(pl, 19),
                   payload    |-> SubSeq(pl, 21, Len(pl))]
    /\ (call.op = "mcu_ping" /\ ret = << 0 >>) =>
           LET HalvesBytes(w) == << Shr8(w, 24), Shr8(w, 16), Shr8(w, 8), Shr8(w, 0) >>
           IN
           io[2].pl = FwAckPingBytes(HalvesBytes(out[1].unique_id_high)
                                     \o HalvesBytes(out[1].unique_id_mid)
                                     \o HalvesBytes(out[1].unique_id_low),
                                     SubSeq(out[1].version, 1, PING_VERSION_SIZE - 1),
                                     out[1].nb_radio_tx, out[1].nb_radio_rx)
    /\ (call.op = "mcu_get_status" /\ ret = << 0 >>) =>
           io[2].pl = FwAckStatus(out[1].system_time_ms, out[1].precise_time_us,
                                  out[1].pps_status, out[1].pps_time_us, out[1].temperature,
                                  [k \in 1..(4 * nb_radio_rx) |->
                                      LET c == IF ((k - 1) % 4) < 2
                                               THEN out[1].rx_crc_ok[(k - 1) \div 4]
                                               ELSE out[1].rx_crc_err[(k - 1) \div 4]
                                      IN  IF k % 2 = 1 THEN c \div 256 ELSE c % 256])
    /\ (call.op = "mcu_receive" /\ ret = << 0 >>) =>
           \A k \in 1..Len(out) :
               io[2 + k].pl = FwEvtMsg(out[k].channel, out[k].count_us, out[k].foff_hz,
                                       out[k].snr, out[k].rssi,
                                       SubSeq(out[k].payload, 1, out[k].size))

\* a request with a negative power and 255 payload bytes was written, and an
\* event with the most negative frequency error, SNR and RSSI and 255 payload
\* bytes was decoded
C33_Witness ==
    \/ /\ call.op = "lgw_send" /\ io # << >>
       /\ call.pkt.size = 255
       /\ call.pkt.rf_power < 0
       /\ At(io[1].pl, 5) >= 128
    \/ /\ call.op = "mcu_receive" /\ ret = << 0 >> /\ Len(out) = 1
       /\ out[1].foff_hz = -2147483647 - 1
       /\ out[1].snr = -128 /\ out[1].rssi = -128
       /\ out[1].size = 255

\* C34: whenever no call is in progress, a descriptor opened by the HAL is
\* open if and only if the lifecycle is Started, and never more than one:
\* a failed lgw_start leaves no descriptor open.
C34_OpenIffStarted ==
    pc = "idle" =>
        /\ lgw_is_started <=> (fds \ {0} # {})
        /\ Cardinality(fds \ {0}) <= 1

\* C35: every write, read and close of a call is made on a descriptor that a
\* successful mcu_open returned, before the call or earlier in the call, and
\* that is still open: the descriptors open before the call (0, which the HAL
\* never opened, excepted) and the one the call opened.
C35_OnlyOpenHandlesUsed ==
    [][\A k \in 1..Len(io') :
           io'[k].t \in {"write", "read", "close"} =>
               \/ io'[k].fd \in fds \ {0}
               \/ \E j \in 1..(k - 1) :
                      /\ io'[j].t = "open"
                      /\ io'[j].n >= 0
                      /\ io'[j].fd = io'[k].fd]_vars

\* C36: when a call has returned and none of its writes and reads failed in
\* the transport, every reply it started to read was read to the end of its
\* declared payload, every request was followed by the read of its reply, and
\* as many events were read after a get-RX-message acknowledgment as it
\* announced: nothing is left in the transport for the next call.
C36_NoReplyLeftUnread ==
    (/\ pc = "idle"
     /\ \A k \in 1..Len(io) :
            ~(io[k].n = -1 /\ (io[k].t = "write" \/ (io[k].t = "read" /\ io[k].pl = << >>)))) =>
        \A k \in 1..Len(io) :
            /\ io[k].t = "write" => (k < Len(io) /\ io[k + 1].t = "read")
            /\ io[k].t = "read" =>
                   /\ Len(io[k].pl) = HEADER_CMD_SIZE + cmd_get_size(io[k].pl)
                   /\ cmd_get_type(io[k].pl) = ORDER_ID.ACK_GET_RX_MSG =>
                          \A j \in 1..At(io[k].pl, HEADER_CMD_SIZE + ACK_GET_RX_MSG.NB_MSG) :
                              k + j <= Len(io) /\ io[k + j].t = "read"

\* C37: the indices used on the tables of LGW_RX_CHANNEL_NB_MAX entries are
\* below LGW_RX_CHANNEL_NB_MAX: the radio index of every packet lgw_receive
\* looked up in rx_channel, and the RX radio count that bounds the loops over
\* the per-radio counters and over the channels is at most
\* LGW_RX_CHANNEL_NB_MAX.
C37_TableIndexInRange ==
    /\ (call.op = "lgw_receive" /\ pc = "idle" /\ ret # << -1 >>) =>
           \A k \in 1..Len(out) : out[k].channel < LGW_RX_CHANNEL_NB_MAX
    /\ nb_radio_rx <= LGW_RX_CHANNEL_NB_MAX

\* C38: what a decoder takes from buf_ack after an undisturbed read_ack
\* returned a reply depends only on the bytes of that reply: it is what the
\* decoder takes from the same buffer with every byte from position
\* 4 + declared size on cleared.
C38_DecodedFromCurrentReply ==
    (/\ call.op = "read_ack" /\ pc = "idle"
     /\ call.errno = "none" /\ call.script = << >>
     /\ ret # << -1 >>) =>
        LET declared == HEADER_CMD_SIZE + cmd_get_size(BufAck)
            whole    == [k \in 1..READ_SIZE_MAX |-> BufAt(BufAck, k - 1)]
            reply    == [k \in 1..READ_SIZE_MAX |-> IF k <= declared THEN BufAt(BufAck, k - 1) ELSE 0]
        IN  /\ decode_ack_ping(whole) = decode_ack_ping(reply)
            /\ decode_ack_get_status(whole, LGW_RX_CHANNEL_NB_MAX)
                   = decode_ack_get_status(reply, LGW_RX_CHANNEL_NB_MAX)
            /\ decode_ack_get_rx_msg(whole) = decode_ack_get_rx_msg(reply)
            /\ decode_evt_msg_received(whole) = decode_evt_msg_received(reply)
            /\ \A t \in {ORDER_ID.ACK_RESET, ORDER_ID.ACK_CONFIG_RX, ORDER_ID.ACK_PREPARE_TX,
                         ORDER_ID.ACK_GET_TX_STATUS} :
                   decode_ack_status(whole, t) = decode_ack_status(reply, t)

\* C39: a lgw_receive that stored packets in the caller's array and whose
\* fetch phase succeeded (it went on to the get-status request) returns the
\* number of these packets, also when the status exchange fails.
C39_FetchedPacketsReturned ==
    (/\ call.op = "lgw_receive" /\ pc = "idle"
     /\ out # << >>
     /\ \E k \in 1..Len(io) : io[k].t = "write" /\ io[k].cmd = ORDER_ID.REQ_GET_STATUS) =>
        ret = << Len(out) >>

\* C40: while the stored TX configuration is disabled, lgw_send returns an
\* error and writes nothing to the transport.
C40_TxDisabledGatesSend ==
    (call.op = "lgw_send" /\ pc = "idle" /\ ~tx_channel.enable) =>
        (ret = << -1 >> /\ io = << >>)

====
